---- MODULE Spec2Model ----
(***************************************************************************)
(* State-machine model of the playback engine of music_pitch_app:          *)
(* src/src/audio/AudioEngine.js (class AudioEngine), together with the     *)
(* parts of Tone.js (Transport, GrainPlayer, PitchShift, context) and of   *)
(* the HTML media element that the engine drives.                          *)
(*                                                                         *)
(* JavaScript runs the engine on one event loop.  A synchronous method is  *)
(* one action.  An async method is cut at its awaits: every piece between  *)
(* two awaits is one action, and other actions interleave at the awaits.   *)
(*                                                                         *)
(* The module also follows one request to the stream endpoint of the       *)
(* server, src/server/index.js (GET /api/stream): the handlers attached to *)
(* the yt-dlp child process and what they do to the HTTP response.         *)
(***************************************************************************)
EXTENDS Integers, FiniteSets, Sequences, TLC

\* ---------------------------------------------------------------- bounds
MaxCalls == 2       \* load calls (loadFile / loadUrl) issued in one run
MaxTime == 2        \* largest position / duration, in seconds
MaxChunks == 2      \* chunks the child process writes to stdout / to stderr
MaxTimers == 3      \* setInterval calls of the App component in one run
MaxChecks == 2      \* /api/auth/status requests in flight at one time
MaxRequests == 2    \* requests to the info endpoint in one run
MaxOps == 3         \* calls into the auth module in one run

\* ------------------------------------------------------------- constants
NULL == 0           \* JavaScript null for the engine's handles
NaN == -1           \* duration of a media element without metadata
DefaultRate == 100  \* currentRate = 1.0, rates are kept in percent
DefaultDetune == 0  \* currentDetune = 0 cents
HaveMetadata == 1   \* HTMLMediaElement.HAVE_METADATA, readyState >= 1

Ids == 1..MaxCalls                 \* a call and the objects it constructs
Times == 0..MaxTime
Durations == {1, MaxTime}          \* durations of the sources offered
Rates == {DefaultRate, 150}        \* playback rates, percent
Cents == {DefaultDetune, 700}      \* detune values, cents

\* The rates and detunes offered where only the parameters are followed:
\* the ends of the UI's rate range [0.5, 2.0], the lower end of its detune
\* range [-1200, 1200], the defaults, and detunes in between (-150 cents is
\* no whole number of semitones).
ParamRates == {50, DefaultRate, 200}
ParamCents == {-1200, -150, DefaultDetune, 700}

\* cents / 100, the value PitchShift.pitch is given, in semitones: the
\* quotient of the floating-point division, kept as whole semitones plus
\* hundredths of a semitone (700 is 7 and 0/100, -150 is -2 and 50/100).
Semitones(cents) ==
    [whole |-> cents \div 100, hundredths |-> cents % 100]

VARIABLES
    player,         \* this.player: id of the GrainPlayer or NULL
    mediaElement,   \* this.mediaElement: id of the HTMLAudioElement or NULL
    mediaNode,      \* this.mediaNode: id of the MediaElementAudioSourceNode
    pitchShift,     \* this.pitchShift: id of the Tone.PitchShift or NULL
    mode,           \* this.mode: "none", "local" or "stream"
    isPlaying,      \* this.isPlaying
    currentRate,    \* this.currentRate
    currentDetune,  \* this.currentDetune
    ctxState,       \* Tone.context.state
    transport,      \* Tone.Transport: state, seconds, scheduled events
    players,        \* every GrainPlayer ever constructed, by id
    elems,          \* every HTMLAudioElement ever constructed, by id
    nodes,          \* every MediaElementAudioSourceNode, by id
    shifts,         \* every Tone.PitchShift, by id
    calls,          \* every loadFile / loadUrl call: position and outcome
    nCalls,         \* number of load calls issued so far
    recording,      \* history: calls keep what was observable at call time
    lastCommand,    \* history: the last of play / pause / stop, or "off"
    threw,          \* a transport command threw a TypeError
    progress,       \* the message onProgress was last called with, or "off"
    stream,         \* the server's handling of one GET /api/stream request
    app,            \* the App component's playback state (useState values)
    poll,           \* the App component's authorization polling
    info,           \* the server's handling of one GET /api/info request
    auth            \* the state of the server's auth module

engineFields == <<player, mediaElement, mediaNode, pitchShift, mode,
                  isPlaying, currentRate, currentDetune>>
toneVars == <<ctxState, transport>>
heapVars == <<players, elems, nodes, shifts>>
callVars == <<calls, nCalls, recording, lastCommand>>
engineVars == <<engineFields, toneVars, heapVars, callVars, threw>>
outerVars == <<app, poll, info, auth>>
vars == <<engineVars, progress, stream, outerVars>>

\* -------------------------------------------------------------- queries
\* getCurrentTime()
GetCurrentTime ==
    IF mode = "local" THEN transport.seconds
    ELSE IF mode = "stream" /\ mediaElement # NULL
         THEN elems[mediaElement].currentTime
    ELSE 0

\* getDuration()
GetDuration ==
    IF mode = "local" /\ player # NULL THEN players[player].duration
    ELSE IF mode = "stream" /\ mediaElement # NULL
         THEN elems[mediaElement].duration
    ELSE 0

\* What a caller can observe of the engine at one moment.
Observed ==
    [mode |-> mode, isPlaying |-> isPlaying, player |-> player,
     mediaElement |-> mediaElement, mediaNode |-> mediaNode,
     pitchShift |-> pitchShift, time |-> GetCurrentTime,
     duration |-> GetDuration]

NoSnapshot == [mode |-> "unset"]

\* ----------------------------------------------------------------- Init
\* An object that was never constructed.  A disposed GrainPlayer or
\* PitchShift has released its buffer and parameters, and a media element
\* whose src was cleared has dropped its resource: the engine holds no
\* reference to either, and both are kept with these same fields.
NoPlayer ==
    [st |-> "absent", playbackRate |-> DefaultRate,
     detune |-> DefaultDetune, duration |-> 0]
NoElem ==
    [st |-> "absent", paused |-> TRUE, currentTime |-> 0, duration |-> NaN,
     readyState |-> 0, playbackRate |-> DefaultRate,
     preservesPitch |-> FALSE, failed |-> FALSE, abortError |-> FALSE]
NoShift == [st |-> "absent", pitch |-> Semitones(DefaultDetune)]
NoCall == [kind |-> "none", pc |-> "unborn", result |-> NaN,
           before |-> NoSnapshot]

\* The server before the stream request arrives: no child process, nothing
\* sent.
NoStream ==
    [st |-> "idle", headersSent |-> FALSE, contentType |-> "none",
     res |-> "open", errors |-> 0, audio |-> 0, refused |-> FALSE,
     chunks |-> 0, stderrChunks |-> 0, stdout |-> "open", stderr |-> "open",
     proc |-> "none", client |-> "connected"]

\* The App component as useState() initialises it.
NoApp ==
    [isPlaying |-> FALSE, isLoaded |-> FALSE, duration |-> 0,
     isLoadingYoutube |-> FALSE]

\* The App component's polling before it is mounted: no timer, no request.
NoPoll ==
    [mounted |-> FALSE, pollInterval |-> NULL, timers |-> {}, nTimers |-> 0,
     isAuthenticating |-> FALSE, checks |-> 0, user |-> FALSE,
     authData |-> FALSE]

\* The info endpoint's metadata sources, in the order of its nested
\* try / catch blocks: youtubei.js getBasicInfo, youtubei.js search, yt-dlp
\* --dump-json, oEmbed.
Sources == <<"basic", "search", "ytdlp", "oembed">>

Requests == 1..MaxRequests

\* A request to the info endpoint that has not arrived: no source tried,
\* nothing sent.
NoRequest ==
    [st |-> "idle", url |-> "none", tried |-> <<>>, failed |-> {},
     sent |-> 0, status |-> 0, body |-> "none"]

\* The server before any info request arrives.
NoInfo == [r \in Requests |-> NoRequest]

\* The calls into the auth module that a run follows. The client instance
\* that a call's Innertube.create() produces is named after the call.
Ops == 1..MaxOps

\* A call into the auth module that has not been made: what is called, where
\* its async function stands, the instance it works on (yt), what it
\* returned, and how many sign-outs had completed when it was called.
NoOp == [kind |-> "none", pc |-> "idle", yt |-> NULL, result |-> "none",
         epoch |-> 0]

\* The auth module as loaded: youtube = null, no instance created (session:
\* "none"; "out" and "in" are session.logged_in false and true), no
\* credentials file. outs counts the sign-outs completed, made the instances
\* created since the last of them, and clean tells that a sign-out has
\* completed and no flow started after it has succeeded.
NoAuth ==
    [youtube |-> NULL, session |-> [i \in Ops |-> "none"], file |-> FALSE,
     op |-> [p \in Ops |-> NoOp], outs |-> 0, made |-> 0, clean |-> FALSE]

\* Everything outside the engine and the stream endpoint, untouched.
Outer == app = NoApp /\ poll = NoPoll /\ info = NoInfo /\ auth = NoAuth

\* constructor()
Constructed ==
    /\ player = NULL
    /\ mediaElement = NULL
    /\ mediaNode = NULL
    /\ pitchShift = NULL
    /\ mode = "none"
    /\ isPlaying = FALSE
    /\ currentRate = DefaultRate
    /\ currentDetune = DefaultDetune
    /\ ctxState = "suspended"
    /\ transport = [state |-> "stopped", seconds |-> 0, scheduled |-> {}]
    /\ players = [c \in Ids |-> NoPlayer]
    /\ elems = [c \in Ids |-> NoElem]
    /\ nodes = [c \in Ids |-> "absent"]
    /\ shifts = [c \in Ids |-> NoShift]
    /\ calls = [c \in Ids |-> NoCall]
    /\ nCalls = 0
    /\ threw = FALSE

Init ==
    /\ Constructed /\ recording = FALSE /\ lastCommand = "off"
    /\ progress = "off" /\ stream = NoStream /\ Outer

\* The same program, with every call recording the state it was made in.
InitRecording ==
    /\ Constructed /\ recording = TRUE /\ lastCommand = "off"
    /\ progress = "off" /\ stream = NoStream /\ Outer

\* The same program, with the last play(), pause() or stop() call since the
\* latest teardown recorded ("none": there was none).
InitTransport ==
    /\ Constructed /\ recording = FALSE /\ lastCommand = "none"
    /\ progress = "off" /\ stream = NoStream /\ Outer

\* The App component mounted: its mount effect has called checkAuthStatus(),
\* whose request is in flight.
InitPolling ==
    /\ Constructed /\ recording = FALSE /\ lastCommand = "off"
    /\ progress = "off" /\ stream = NoStream
    /\ app = NoApp /\ info = NoInfo /\ auth = NoAuth
    /\ poll = [NoPoll EXCEPT !.mounted = TRUE, !.checks = 1]

\* The server started, with or without a credentials file left by an
\* earlier run in the working directory.
InitAuth ==
    /\ Constructed /\ recording = FALSE /\ lastCommand = "off"
    /\ progress = "off" /\ stream = NoStream
    /\ app = NoApp /\ poll = NoPoll /\ info = NoInfo
    /\ \E f \in BOOLEAN : auth = [NoAuth EXCEPT !.file = f]

\* The same program, with the message last handed to the caller's
\* onProgress callback recorded ("": none yet).
InitProgress ==
    /\ Constructed /\ recording = FALSE /\ lastCommand = "off"
    /\ progress = "" /\ stream = NoStream /\ Outer

\* What lastCommand becomes when op is the command that just ran.
Noted(op) == IF lastCommand = "off" THEN "off" ELSE op

\* What progress becomes when onProgress(msg) has just been called.
Told(msg) == IF progress = "off" THEN "off" ELSE msg

\* ------------------------------------------------- Tone.js / media helpers
\* Tone.Transport.stop(): the clock stops and its position returns to 0.
TransportStop(t) == [t EXCEPT !.state = "stopped", !.seconds = 0]

\* Tone.Transport.cancel(): every scheduled event is removed.
TransportCancel(t) == [t EXCEPT !.scheduled = {}]

\* GrainPlayer.dispose() / PitchShift.dispose()
Dispose(o) == [o EXCEPT !.st = "disposed"]

\* HTMLMediaElement.pause() followed by src = '': the element is paused, its
\* resource is dropped (readyState, duration and position are reset, the
\* events queued for it are removed) and, because the src attribute is now
\* the empty string, the element queues one error event.
Detach(e) == [NoElem EXCEPT !.st = "detached", !.abortError = TRUE]

\* A call is superseded once a later call has run its teardown.
PastInit(c) == calls[c].pc \notin {"unborn", "init"}
Superseded(c) == \E d \in Ids : d > c /\ PastInit(d)

\* The awaits on initialize() are resumed in the order the calls were made.
NextToResume(c) ==
    /\ calls[c].pc = "init"
    /\ \A d \in Ids : d < c => PastInit(d)

\* ------------------------------------------------------ stopAndDispose()
\* stopAndDispose() that drops its reference to the media element without
\* pausing or detaching it.
StopAndDisposeKeepsElement ==
    [transport |-> TransportCancel(TransportStop(transport)),
     players |-> IF player # NULL
                 THEN [players EXCEPT ![player] = Dispose(NoPlayer)]
                 ELSE players,
     nodes |-> IF mediaNode # NULL
               THEN [nodes EXCEPT ![mediaNode] = "disconnected"]
               ELSE nodes,
     shifts |-> IF pitchShift # NULL
                THEN [shifts EXCEPT ![pitchShift] = Dispose(NoShift)]
                ELSE shifts,
     elems |-> elems,
     player |-> NULL, mediaNode |-> NULL, pitchShift |-> NULL,
     mediaElement |-> NULL, isPlaying |-> FALSE, mode |-> "none"]

\* stopAndDispose() that drops its reference to the player without disposing
\* it.
StopAndDisposeKeepsPlayer ==
    [transport |-> TransportCancel(TransportStop(transport)),
     players |-> players,
     nodes |-> IF mediaNode # NULL
               THEN [nodes EXCEPT ![mediaNode] = "disconnected"]
               ELSE nodes,
     shifts |-> IF pitchShift # NULL
                THEN [shifts EXCEPT ![pitchShift] = Dispose(NoShift)]
                ELSE shifts,
     elems |-> IF mediaElement # NULL
               THEN [elems EXCEPT ![mediaElement] = Detach(@)]
               ELSE elems,
     player |-> NULL, mediaNode |-> NULL, pitchShift |-> NULL,
     mediaElement |-> NULL, isPlaying |-> FALSE, mode |-> "none"]

\* The value of every variable stopAndDispose() writes, after it has run.
StopAndDispose ==
    [transport |-> TransportCancel(TransportStop(transport)),
     players |-> IF player # NULL
                 THEN [players EXCEPT ![player] = Dispose(NoPlayer)]
                 ELSE players,
     nodes |-> IF mediaNode # NULL
               THEN [nodes EXCEPT ![mediaNode] = "disconnected"]
               ELSE nodes,
     shifts |-> IF pitchShift # NULL
                THEN [shifts EXCEPT ![pitchShift] = Dispose(NoShift)]
                ELSE shifts,
     elems |-> IF mediaElement # NULL
               THEN [elems EXCEPT ![mediaElement] = Detach(@)]
               ELSE elems,
     player |-> NULL, mediaNode |-> NULL, pitchShift |-> NULL,
     mediaElement |-> NULL, isPlaying |-> FALSE, mode |-> "none"]

\* --------------------------------------------------------------- loadFile
\* loadFile(file) up to its first await: initialize() is entered.
LoadFileCall ==
    /\ nCalls < MaxCalls
    /\ nCalls' = nCalls + 1
    /\ calls' = [calls EXCEPT ![nCalls + 1] =
                    [kind |-> "file", pc |-> "init", result |-> NaN,
                     before |-> IF recording THEN Observed ELSE NoSnapshot]]
    /\ UNCHANGED <<engineFields, toneVars, heapVars, recording, lastCommand,
                   threw>>
    /\ UNCHANGED <<progress, stream, outerVars>>

\* loadFile after initialize(): stopAndDispose(), mode = 'local', and the
\* call waits for file.arrayBuffer().
LoadFileTeardown(c) ==
    /\ NextToResume(c)
    /\ calls[c].kind = "file"
    /\ ctxState' = "running"
    /\ transport' = StopAndDispose.transport
    /\ players' = StopAndDispose.players
    /\ nodes' = StopAndDispose.nodes
    /\ shifts' = StopAndDispose.shifts
    /\ elems' = StopAndDispose.elems
    /\ player' = StopAndDispose.player
    /\ mediaNode' = StopAndDispose.mediaNode
    /\ pitchShift' = StopAndDispose.pitchShift
    /\ mediaElement' = StopAndDispose.mediaElement
    /\ isPlaying' = StopAndDispose.isPlaying
    /\ mode' = "local"
    /\ calls' = [calls EXCEPT ![c].pc = "reading"]
    /\ lastCommand' = Noted("none")
    /\ UNCHANGED <<currentRate, currentDetune, nCalls, recording, threw>>
    /\ UNCHANGED <<progress, stream, outerVars>>

\* file.arrayBuffer() resolves: the call waits for decodeAudioData().
LoadFileRead(c) ==
    /\ calls[c].pc = "reading"
    /\ calls' = [calls EXCEPT ![c].pc = "decoding"]
    /\ UNCHANGED <<engineFields, toneVars, heapVars, nCalls, recording,
                   lastCommand, threw>>
    /\ UNCHANGED <<progress, stream, outerVars>>

\* The completion of loadFile with a player left at the library's default
\* rate and detune.
LoadFileDecodedDefaults(c, dur) ==
    /\ calls[c].pc = "decoding"
    /\ players' = [players EXCEPT ![c] =
                      [st |-> "live", playbackRate |-> DefaultRate,
                       detune |-> DefaultDetune, duration |-> dur]]
    /\ player' = c
    /\ transport' = [transport EXCEPT !.scheduled = @ \cup {c}]
    /\ calls' = [calls EXCEPT ![c] = [@ EXCEPT !.pc = "resolved",
                                               !.result = dur,
                                               !.before = NoSnapshot]]
    /\ UNCHANGED <<mediaElement, mediaNode, pitchShift, mode, isPlaying,
                   currentRate, currentDetune, ctxState, elems, nodes,
                   shifts, nCalls, recording,
                   lastCommand, threw>>
    /\ UNCHANGED <<progress, stream, outerVars>>

\* decodeAudioData() resolves with a buffer of dur seconds: the player is
\* constructed, given the current rate and detune, synced to the transport
\* and installed; the call resolves with this.player.buffer.duration.
LoadFileDecoded(c, dur) ==
    /\ calls[c].pc = "decoding"
    /\ players' = [players EXCEPT ![c] =
                      [st |-> "live", playbackRate |-> currentRate,
                       detune |-> currentDetune, duration |-> dur]]
    /\ player' = c
    /\ transport' = [transport EXCEPT !.scheduled = @ \cup {c}]
    /\ calls' = [calls EXCEPT ![c] = [@ EXCEPT !.pc = "resolved",
                                               !.result = dur,
                                               !.before = NoSnapshot]]
    /\ UNCHANGED <<mediaElement, mediaNode, pitchShift, mode, isPlaying,
                   currentRate, currentDetune, ctxState, elems, nodes,
                   shifts, nCalls, recording,
                   lastCommand, threw>>
    /\ UNCHANGED <<progress, stream, outerVars>>

\* decodeAudioData() rejects (undecodable or zero-length input): the call
\* rejects, nothing after the await runs.
LoadFileDecodeFailed(c) ==
    /\ calls[c].pc = "decoding"
    /\ calls' = [calls EXCEPT ![c] = [@ EXCEPT !.pc = "rejected",
                                               !.before = NoSnapshot]]
    /\ UNCHANGED <<engineFields, toneVars, heapVars, nCalls, recording,
                   lastCommand, threw>>
    /\ UNCHANGED <<progress, stream, outerVars>>

\* ---------------------------------------------------------------- loadUrl
\* loadUrl(url, onProgress) up to its first await.
LoadUrlCall ==
    /\ nCalls < MaxCalls
    /\ nCalls' = nCalls + 1
    /\ calls' = [calls EXCEPT ![nCalls + 1] =
                    [kind |-> "url", pc |-> "init", result |-> NaN,
                     before |-> IF recording THEN Observed ELSE NoSnapshot]]
    /\ UNCHANGED <<engineFields, toneVars, heapVars, recording, lastCommand,
                   threw>>
    /\ UNCHANGED <<progress, stream, outerVars>>

\* The construction of loadUrl with the element's preservesPitch flag off.
LoadUrlConstructPitchCoupled(c, known) ==
    /\ NextToResume(c)
    /\ calls[c].kind = "url"
    /\ ctxState' = "running"
    /\ transport' = StopAndDispose.transport
    /\ players' = StopAndDispose.players
    /\ player' = StopAndDispose.player
    /\ isPlaying' = StopAndDispose.isPlaying
    /\ mode' = "stream"
    /\ mediaElement' = c
    /\ elems' = [StopAndDispose.elems EXCEPT ![c] =
                    [st |-> "attached", paused |-> TRUE, currentTime |-> 0,
                     duration |-> known,
                     readyState |-> IF known # NaN THEN HaveMetadata ELSE 0,
                     playbackRate |-> currentRate,
                     preservesPitch |-> FALSE,
                     failed |-> FALSE, abortError |-> FALSE]]
    /\ mediaNode' = c
    /\ nodes' = [StopAndDispose.nodes EXCEPT ![c] = "connected"]
    /\ pitchShift' = c
    /\ shifts' = [StopAndDispose.shifts EXCEPT ![c] =
                     [st |-> "live", pitch |-> Semitones(currentDetune)]]
    /\ calls' = IF known # NaN
                THEN [calls EXCEPT ![c] = [@ EXCEPT !.pc = "resolved",
                                                    !.result = known,
                                                    !.before = NoSnapshot]]
                ELSE [calls EXCEPT ![c].pc = "pending"]
    /\ lastCommand' = Noted("none")
    /\ UNCHANGED <<currentRate, currentDetune, nCalls, recording, threw>>
    /\ progress' = Told(IF known # NaN THEN "Metadata loaded"
                      ELSE "Connecting...")
    /\ UNCHANGED <<stream, outerVars>>

\* loadUrl after initialize(): stopAndDispose(), mode = 'stream', the media
\* element, source node and pitch shifter are constructed and connected and
\* the handlers are attached.  known is the duration the new element has at
\* once (NaN: no metadata yet, readyState 0); with metadata already there
\* (readyState >= 1) onMetadata() runs at once and the promise resolves.
LoadUrlConstruct(c, known) ==
    /\ NextToResume(c)
    /\ calls[c].kind = "url"
    /\ ctxState' = "running"
    /\ transport' = StopAndDispose.transport
    /\ players' = StopAndDispose.players
    /\ player' = StopAndDispose.player
    /\ isPlaying' = StopAndDispose.isPlaying
    /\ mode' = "stream"
    /\ mediaElement' = c
    /\ elems' = [StopAndDispose.elems EXCEPT ![c] =
                    [st |-> "attached", paused |-> TRUE, currentTime |-> 0,
                     duration |-> known,
                     readyState |-> IF known # NaN THEN HaveMetadata ELSE 0,
                     playbackRate |-> currentRate,
                     preservesPitch |-> TRUE,
                     failed |-> FALSE, abortError |-> FALSE]]
    /\ mediaNode' = c
    /\ nodes' = [StopAndDispose.nodes EXCEPT ![c] = "connected"]
    /\ pitchShift' = c
    /\ shifts' = [StopAndDispose.shifts EXCEPT ![c] =
                     [st |-> "live", pitch |-> Semitones(currentDetune)]]
    /\ calls' = IF known # NaN
                THEN [calls EXCEPT ![c] = [@ EXCEPT !.pc = "resolved",
                                                    !.result = known,
                                                    !.before = NoSnapshot]]
                ELSE [calls EXCEPT ![c].pc = "pending"]
    /\ lastCommand' = Noted("none")
    /\ UNCHANGED <<currentRate, currentDetune, nCalls, recording, threw>>
    /\ progress' = Told(IF known # NaN THEN "Metadata loaded"
                      ELSE "Connecting...")
    /\ UNCHANGED <<stream, outerVars>>

\* The loadedmetadata event of element c, delivered even after the element
\* was detached.
MediaMetadataLate(c, dur) ==
    /\ elems[c].st \in {"attached", "detached"}
    /\ elems[c].readyState < HaveMetadata
    /\ ~elems[c].failed
    /\ elems' = [elems EXCEPT ![c].readyState = HaveMetadata,
                              ![c].duration = dur]
    /\ calls' = IF mediaElement # NULL /\ calls[c].pc = "pending"
                THEN [calls EXCEPT ![c] =
                         [@ EXCEPT !.pc = "resolved",
                                   !.result = elems'[mediaElement].duration,
                                   !.before = NoSnapshot]]
                ELSE calls
    /\ UNCHANGED <<engineFields, toneVars, players, nodes, shifts, nCalls,
                   recording, lastCommand, threw>>
    /\ progress' = IF mediaElement # NULL THEN Told("Metadata loaded")
                   ELSE progress
    /\ UNCHANGED <<stream, outerVars>>

\* The loadedmetadata event of element c, reporting dur seconds.  It is
\* delivered only while the element still has its resource.  onMetadata
\* reads this.mediaElement, the engine's handle at that moment: with a null
\* handle it throws before it reaches resolve; otherwise it resolves the
\* call's promise (a promise settles once: a settled call keeps its
\* outcome).
MediaMetadata(c, dur) ==
    /\ elems[c].st = "attached"
    /\ elems[c].readyState < HaveMetadata
    /\ ~elems[c].failed
    /\ elems' = [elems EXCEPT ![c].readyState = HaveMetadata,
                              ![c].duration = dur]
    /\ calls' = IF mediaElement # NULL /\ calls[c].pc = "pending"
                THEN [calls EXCEPT ![c] =
                         [@ EXCEPT !.pc = "resolved",
                                   !.result = elems'[mediaElement].duration,
                                   !.before = NoSnapshot]]
                ELSE calls
    /\ UNCHANGED <<engineFields, toneVars, players, nodes, shifts, nCalls,
                   recording, lastCommand, threw>>
    /\ progress' = IF mediaElement # NULL THEN Told("Metadata loaded")
                   ELSE progress
    /\ UNCHANGED <<stream, outerVars>>

\* MediaError with an onerror that also resets this.mode to 'none', whatever
\* load is active by then.
MediaErrorResetsMode(c) ==
    /\ \/ elems[c].st = "attached" /\ ~elems[c].failed
       \/ elems[c].st = "detached" /\ elems[c].abortError
    /\ elems' = [elems EXCEPT ![c].failed = (elems[c].st = "attached"),
                              ![c].abortError = FALSE]
    /\ calls' = IF calls[c].pc = "pending"
                THEN [calls EXCEPT ![c] = [@ EXCEPT !.pc = "rejected",
                                                    !.before = NoSnapshot]]
                ELSE calls
    /\ mode' = "none"
    /\ UNCHANGED <<player, mediaElement, mediaNode, pitchShift, isPlaying,
                   currentRate, currentDetune, toneVars, players, nodes,
                   shifts, nCalls, recording, lastCommand, threw>>
    /\ progress' = Told("Error loading stream")
    /\ UNCHANGED <<stream, outerVars>>

\* MediaError with an onerror that rejects whatever the call's state is, a
\* resolved call included.
MediaErrorSettlesAgain(c) ==
    /\ \/ elems[c].st = "attached" /\ ~elems[c].failed
       \/ elems[c].st = "detached" /\ elems[c].abortError
    /\ elems' = [elems EXCEPT ![c].failed = (elems[c].st = "attached"),
                              ![c].abortError = FALSE]
    /\ calls' = IF calls[c].pc \in {"pending", "resolved"}
                THEN [calls EXCEPT ![c] = [@ EXCEPT !.pc = "rejected",
                                                    !.before = NoSnapshot]]
                ELSE calls
    /\ UNCHANGED <<engineFields, toneVars, players, nodes, shifts, nCalls,
                   recording, lastCommand, threw>>
    /\ progress' = Told("Error loading stream")
    /\ UNCHANGED <<stream, outerVars>>

\* MediaError with an onerror that also drops the engine's handle to the
\* element that failed.
MediaErrorDropsHandle(c) ==
    /\ \/ elems[c].st = "attached" /\ ~elems[c].failed
       \/ elems[c].st = "detached" /\ elems[c].abortError
    /\ elems' = [elems EXCEPT ![c].failed = (elems[c].st = "attached"),
                              ![c].abortError = FALSE]
    /\ calls' = IF calls[c].pc = "pending"
                THEN [calls EXCEPT ![c] = [@ EXCEPT !.pc = "rejected",
                                                    !.before = NoSnapshot]]
                ELSE calls
    /\ mediaElement' = IF mediaElement = c THEN NULL ELSE mediaElement
    /\ UNCHANGED <<player, mediaNode, pitchShift, mode, isPlaying,
                   currentRate, currentDetune, toneVars, players, nodes,
                   shifts, nCalls, recording, lastCommand, threw>>
    /\ progress' = Told("Error loading stream")
    /\ UNCHANGED <<stream, outerVars>>

\* MediaError for a browser that reports an error for an element that has a
\* resource only: clearing src queues nothing.
MediaErrorAttachedOnly(c) ==
    /\ elems[c].st = "attached" /\ ~elems[c].failed
    /\ elems' = [elems EXCEPT ![c].failed = TRUE]
    /\ calls' = IF calls[c].pc = "pending"
                THEN [calls EXCEPT ![c] = [@ EXCEPT !.pc = "rejected",
                                                    !.before = NoSnapshot]]
                ELSE calls
    /\ UNCHANGED <<engineFields, toneVars, players, nodes, shifts, nCalls,
                   recording, lastCommand, threw>>
    /\ progress' = Told("Error loading stream")
    /\ UNCHANGED <<stream, outerVars>>

\* The error event of element c: a network or decode error of an attached
\* element, or the error queued when its src was set to ''.  onerror
\* rejects the call's promise.
MediaError(c) ==
    /\ \/ elems[c].st = "attached" /\ ~elems[c].failed
       \/ elems[c].st = "detached" /\ elems[c].abortError
    /\ elems' = [elems EXCEPT ![c].failed = (elems[c].st = "attached"),
                              ![c].abortError = FALSE]
    /\ calls' = IF calls[c].pc = "pending"
                THEN [calls EXCEPT ![c] = [@ EXCEPT !.pc = "rejected",
                                                    !.before = NoSnapshot]]
                ELSE calls
    /\ UNCHANGED <<engineFields, toneVars, players, nodes, shifts, nCalls,
                   recording, lastCommand, threw>>
    /\ progress' = Told("Error loading stream")
    /\ UNCHANGED <<stream, outerVars>>

\* The messages of the intermediate handlers: onwaiting, onplaying,
\* oncanplay, onstalled.
Signals ==
    {"Buffering...", "Playing", "Ready to play", "Connection stalled..."}

\* An intermediate handler that, on top of its message, resolves the load
\* that is waiting for metadata.
MediaSignalSettles(c, msg) ==
    /\ elems[c].st = "attached"
    /\ progress' = Told(msg)
    /\ calls' = IF calls[c].pc = "pending"
                THEN [calls EXCEPT ![c] = [@ EXCEPT !.pc = "resolved",
                                                    !.before = NoSnapshot]]
                ELSE calls
    /\ UNCHANGED <<engineFields, toneVars, heapVars, nCalls, recording,
                   lastCommand, threw, stream, outerVars>>

\* A waiting, playing, canplay or stalled event of element c: its handler
\* calls onProgress(msg).
MediaSignal(c, msg) ==
    /\ elems[c].st = "attached"
    /\ progress' = Told(msg)
    /\ UNCHANGED <<engineVars, stream, outerVars>>

\* ------------------------------------------------------ transport commands
\* HTMLMediaElement.play(): an element whose source failed before metadata
\* (no supported source) stays paused; any other element starts.
ElemPlay(e) ==
    IF e.failed /\ e.readyState < HaveMetadata THEN e
    ELSE [e EXCEPT !.paused = FALSE]

\* currentTime = seconds on a media element: clamped to a known duration.
ElemSeek(e, seconds) ==
    [e EXCEPT !.currentTime =
        IF e.duration # NaN /\ seconds > e.duration THEN e.duration
        ELSE seconds]

\* play() with the stream branch taken for every mode but 'local'.
PlayUnguarded ==
    /\ IF mode = "local"
       THEN /\ transport' = IF transport.state # "started"
                            THEN [transport EXCEPT !.state = "started"]
                            ELSE transport
            /\ isPlaying' = TRUE
            /\ UNCHANGED <<ctxState, elems, threw>>
       ELSE /\ ctxState' = IF ctxState = "suspended" THEN "running"
                           ELSE ctxState
            /\ IF mediaElement = NULL
               THEN /\ threw' = TRUE
                    /\ UNCHANGED <<elems, isPlaying>>
               ELSE /\ elems' = [elems EXCEPT ![mediaElement].paused = FALSE]
                    /\ isPlaying' = TRUE
                    /\ UNCHANGED threw
            /\ UNCHANGED transport
    /\ lastCommand' = Noted("play")
    /\ UNCHANGED <<player, mediaElement, mediaNode, pitchShift, mode,
                   currentRate, currentDetune, players, nodes, shifts,
                   calls, nCalls, recording>>
    /\ UNCHANGED <<progress, stream, outerVars>>

\* play()
Play ==
    /\ IF mode = "local"
       THEN /\ transport' = IF transport.state # "started"
                            THEN [transport EXCEPT !.state = "started"]
                            ELSE transport
            /\ isPlaying' = TRUE
            /\ UNCHANGED <<ctxState, elems, threw>>
       ELSE IF mode = "stream"
       THEN /\ ctxState' = IF ctxState = "suspended" THEN "running"
                           ELSE ctxState
            /\ IF mediaElement = NULL
               THEN /\ threw' = TRUE
                    /\ UNCHANGED <<elems, isPlaying>>
               ELSE /\ elems' = [elems EXCEPT ![mediaElement] = ElemPlay(@)]
                    /\ isPlaying' = TRUE
                    /\ UNCHANGED threw
            /\ UNCHANGED transport
       ELSE /\ isPlaying' = TRUE
            /\ UNCHANGED <<ctxState, transport, elems, threw>>
    /\ lastCommand' = Noted("play")
    /\ UNCHANGED <<player, mediaElement, mediaNode, pitchShift, mode,
                   currentRate, currentDetune, players, nodes, shifts,
                   calls, nCalls, recording>>
    /\ UNCHANGED <<progress, stream, outerVars>>

\* pause() that also returns to the start.
PauseRewinds ==
    /\ IF mode = "local"
       THEN /\ transport' = TransportStop(transport)
            /\ isPlaying' = FALSE
            /\ UNCHANGED <<elems, threw>>
       ELSE IF mode = "stream"
       THEN /\ IF mediaElement = NULL
               THEN /\ threw' = TRUE
                    /\ UNCHANGED <<elems, isPlaying>>
               ELSE /\ elems' = [elems EXCEPT ![mediaElement] =
                                    ElemSeek([@ EXCEPT !.paused = TRUE], 0)]
                    /\ isPlaying' = FALSE
                    /\ UNCHANGED threw
            /\ UNCHANGED transport
       ELSE /\ isPlaying' = FALSE
            /\ UNCHANGED <<transport, elems, threw>>
    /\ lastCommand' = Noted("pause")
    /\ UNCHANGED <<player, mediaElement, mediaNode, pitchShift, mode,
                   currentRate, currentDetune, ctxState, players, nodes,
                   shifts, calls, nCalls, recording>>
    /\ UNCHANGED <<progress, stream, outerVars>>

\* pause()
Pause ==
    /\ IF mode = "local"
       THEN /\ transport' = IF transport.state = "started"
                            THEN [transport EXCEPT !.state = "paused"]
                            ELSE transport
            /\ isPlaying' = FALSE
            /\ UNCHANGED <<elems, threw>>
       ELSE IF mode = "stream"
       THEN /\ IF mediaElement = NULL
               THEN /\ threw' = TRUE
                    /\ UNCHANGED <<elems, isPlaying>>
               ELSE /\ elems' = [elems EXCEPT ![mediaElement].paused = TRUE]
                    /\ isPlaying' = FALSE
                    /\ UNCHANGED threw
            /\ UNCHANGED transport
       ELSE /\ isPlaying' = FALSE
            /\ UNCHANGED <<transport, elems, threw>>
    /\ lastCommand' = Noted("pause")
    /\ UNCHANGED <<player, mediaElement, mediaNode, pitchShift, mode,
                   currentRate, currentDetune, ctxState, players, nodes,
                   shifts, calls, nCalls, recording>>
    /\ UNCHANGED <<progress, stream, outerVars>>

\* stop() that tears the backend down as a load does.
StopDisposes ==
    /\ transport' = StopAndDispose.transport
    /\ players' = StopAndDispose.players
    /\ nodes' = StopAndDispose.nodes
    /\ shifts' = StopAndDispose.shifts
    /\ elems' = StopAndDispose.elems
    /\ player' = StopAndDispose.player
    /\ mediaNode' = StopAndDispose.mediaNode
    /\ pitchShift' = StopAndDispose.pitchShift
    /\ mediaElement' = StopAndDispose.mediaElement
    /\ isPlaying' = StopAndDispose.isPlaying
    /\ mode' = StopAndDispose.mode
    /\ lastCommand' = Noted("stop")
    /\ UNCHANGED <<currentRate, currentDetune, ctxState, calls, nCalls,
                   recording, threw>>
    /\ UNCHANGED <<progress, stream, outerVars>>

\* stop() that pauses without returning to the start.
StopKeepsPosition ==
    /\ IF mode = "local"
       THEN /\ transport' = IF transport.state = "started"
                            THEN [transport EXCEPT !.state = "paused"]
                            ELSE transport
            /\ isPlaying' = FALSE
            /\ UNCHANGED <<elems, threw>>
       ELSE IF mode = "stream"
       THEN /\ IF mediaElement = NULL
               THEN /\ threw' = TRUE
                    /\ UNCHANGED <<elems, isPlaying>>
               ELSE /\ elems' = [elems EXCEPT ![mediaElement].paused = TRUE]
                    /\ isPlaying' = FALSE
                    /\ UNCHANGED threw
            /\ UNCHANGED transport
       ELSE /\ isPlaying' = FALSE
            /\ UNCHANGED <<transport, elems, threw>>
    /\ lastCommand' = Noted("stop")
    /\ UNCHANGED <<player, mediaElement, mediaNode, pitchShift, mode,
                   currentRate, currentDetune, ctxState, players, nodes,
                   shifts, calls, nCalls, recording>>
    /\ UNCHANGED <<progress, stream, outerVars>>

\* stop()
Stop ==
    /\ IF mode = "local"
       THEN /\ transport' = TransportStop(transport)
            /\ isPlaying' = FALSE
            /\ UNCHANGED <<elems, threw>>
       ELSE IF mode = "stream"
       THEN /\ IF mediaElement = NULL
               THEN /\ threw' = TRUE
                    /\ UNCHANGED <<elems, isPlaying>>
               ELSE /\ elems' = [elems EXCEPT ![mediaElement] =
                                    ElemSeek([@ EXCEPT !.paused = TRUE], 0)]
                    /\ isPlaying' = FALSE
                    /\ UNCHANGED threw
            /\ UNCHANGED transport
       ELSE /\ isPlaying' = FALSE
            /\ UNCHANGED <<transport, elems, threw>>
    /\ lastCommand' = Noted("stop")
    /\ UNCHANGED <<player, mediaElement, mediaNode, pitchShift, mode,
                   currentRate, currentDetune, ctxState, players, nodes,
                   shifts, calls, nCalls, recording>>
    /\ UNCHANGED <<progress, stream, outerVars>>

\* setPlaybackRate(rate) without the null checks on the handles: in local
\* or stream mode with a null handle the assignment throws a TypeError.
SetPlaybackRateUnchecked(rate) ==
    /\ currentRate' = rate
    /\ IF mode = "local"
       THEN /\ IF player # NULL
               THEN /\ players' = [players EXCEPT
                                      ![player].playbackRate = rate]
                    /\ UNCHANGED threw
               ELSE /\ threw' = TRUE
                    /\ UNCHANGED players
            /\ UNCHANGED elems
       ELSE IF mode = "stream"
       THEN /\ IF mediaElement # NULL
               THEN /\ elems' = [elems EXCEPT
                                    ![mediaElement].playbackRate = rate]
                    /\ UNCHANGED threw
               ELSE /\ threw' = TRUE
                    /\ UNCHANGED elems
            /\ UNCHANGED players
       ELSE UNCHANGED <<players, elems, threw>>
    /\ UNCHANGED <<player, mediaElement, mediaNode, pitchShift, mode,
                   isPlaying, currentDetune, toneVars, nodes, shifts,
                   callVars>>
    /\ UNCHANGED <<progress, stream, outerVars>>

\* setPlaybackRate(rate) that moves the pitch control along with the rate.
SetPlaybackRateShiftsPitch(rate) ==
    /\ currentRate' = rate
    /\ IF mode = "local" /\ player # NULL
       THEN /\ players' = [players EXCEPT ![player].playbackRate = rate,
                                          ![player].detune = rate]
            /\ UNCHANGED <<elems, shifts>>
       ELSE IF mode = "stream" /\ mediaElement # NULL
       THEN /\ elems' = [elems EXCEPT ![mediaElement].playbackRate = rate]
            /\ shifts' = [shifts EXCEPT
                              ![pitchShift].pitch = Semitones(rate)]
            /\ UNCHANGED players
       ELSE UNCHANGED <<players, elems, shifts>>
    /\ UNCHANGED <<player, mediaElement, mediaNode, pitchShift, mode,
                   isPlaying, currentDetune, toneVars, nodes,
                   callVars, threw>>
    /\ UNCHANGED <<progress, stream, outerVars>>

\* setPlaybackRate(rate)
SetPlaybackRate(rate) ==
    /\ currentRate' = rate
    /\ IF mode = "local" /\ player # NULL
       THEN /\ players' = [players EXCEPT ![player].playbackRate = rate]
            /\ UNCHANGED elems
       ELSE IF mode = "stream" /\ mediaElement # NULL
       THEN /\ elems' = [elems EXCEPT ![mediaElement].playbackRate = rate]
            /\ UNCHANGED players
       ELSE UNCHANGED <<players, elems>>
    /\ UNCHANGED <<player, mediaElement, mediaNode, pitchShift, mode,
                   isPlaying, currentDetune, toneVars, nodes, shifts,
                   callVars, threw>>
    /\ UNCHANGED <<progress, stream, outerVars>>

\* setDetune(cents) handing the pitch shifter the cents themselves.
SetDetuneRawCents(cents) ==
    /\ currentDetune' = cents
    /\ IF mode = "local" /\ player # NULL
       THEN /\ players' = [players EXCEPT ![player].detune = cents]
            /\ UNCHANGED shifts
       ELSE IF mode = "stream" /\ pitchShift # NULL
       THEN /\ shifts' = [shifts EXCEPT
                              ![pitchShift].pitch =
                                  [whole |-> cents, hundredths |-> 0]]
            /\ UNCHANGED players
       ELSE UNCHANGED <<players, shifts>>
    /\ UNCHANGED <<player, mediaElement, mediaNode, pitchShift, mode,
                   isPlaying, currentRate, toneVars, elems, nodes,
                   callVars, threw>>
    /\ UNCHANGED <<progress, stream, outerVars>>

\* setDetune(cents)
SetDetune(cents) ==
    /\ currentDetune' = cents
    /\ IF mode = "local" /\ player # NULL
       THEN /\ players' = [players EXCEPT ![player].detune = cents]
            /\ UNCHANGED shifts
       ELSE IF mode = "stream" /\ pitchShift # NULL
       THEN /\ shifts' = [shifts EXCEPT
                              ![pitchShift].pitch = Semitones(cents)]
            /\ UNCHANGED players
       ELSE UNCHANGED <<players, shifts>>
    /\ UNCHANGED <<player, mediaElement, mediaNode, pitchShift, mode,
                   isPlaying, currentRate, toneVars, elems, nodes,
                   callVars, threw>>
    /\ UNCHANGED <<progress, stream, outerVars>>

\* seek(seconds) that also pauses the clock it moves.
SeekPauses(seconds) ==
    /\ IF mode = "local"
       THEN /\ transport' = [transport EXCEPT
                                !.seconds = seconds,
                                !.state = IF @ = "started" THEN "paused"
                                          ELSE @]
            /\ UNCHANGED elems
       ELSE IF mode = "stream" /\ mediaElement # NULL
       THEN /\ elems' = [elems EXCEPT ![mediaElement] =
                            ElemSeek([@ EXCEPT !.paused = TRUE], seconds)]
            /\ UNCHANGED transport
       ELSE UNCHANGED <<transport, elems>>
    /\ UNCHANGED <<engineFields, ctxState, players, nodes, shifts,
                   callVars, threw>>
    /\ UNCHANGED <<progress, stream, outerVars>>

\* seek(seconds)
Seek(seconds) ==
    /\ IF mode = "local"
       THEN /\ transport' = [transport EXCEPT !.seconds = seconds]
            /\ UNCHANGED elems
       ELSE IF mode = "stream" /\ mediaElement # NULL
       THEN /\ elems' = [elems EXCEPT ![mediaElement] = ElemSeek(@, seconds)]
            /\ UNCHANGED transport
       ELSE UNCHANGED <<transport, elems>>
    /\ UNCHANGED <<engineFields, ctxState, players, nodes, shifts,
                   callVars, threw>>
    /\ UNCHANGED <<progress, stream, outerVars>>

\* -------------------------------------------------------------- the clocks
\* One second passes: a started transport and every playing media element
\* advance (a media element up to its duration).
Advance(e) ==
    IF /\ e.st = "attached" /\ ~e.paused /\ ~e.failed
       /\ e.readyState >= HaveMetadata /\ e.currentTime < e.duration
    THEN [e EXCEPT !.currentTime = @ + 1]
    ELSE e

Tick ==
    /\ \/ transport.state = "started" /\ transport.seconds < MaxTime
       \/ \E c \in Ids : Advance(elems[c]) # elems[c]
    /\ transport' = IF transport.state = "started"
                       /\ transport.seconds < MaxTime
                    THEN [transport EXCEPT !.seconds = @ + 1]
                    ELSE transport
    /\ elems' = [c \in Ids |-> Advance(elems[c])]
    /\ UNCHANGED <<engineFields, ctxState, players, nodes, shifts,
                   callVars, threw>>
    /\ UNCHANGED <<progress, stream, outerVars>>

\* ------------------------------------------------- server: GET /api/stream
\* res.status(500).json({error, details}) as the response takes it: a
\* response nothing was sent on carries the error and is finished; on a
\* finished response, or one whose headers went out with audio, the call
\* throws and sends nothing.
SendError(s) ==
    IF s.res = "open"
    THEN [s EXCEPT !.res = "error", !.errors = @ + 1,
                   !.contentType = "application/json"]
    ELSE [s EXCEPT !.refused = TRUE]

\* What stdout.pipe(res) does with a chunk: res.write(chunk).  A finished
\* response takes no bytes (write after end).
PipeWrite(s) ==
    IF s.res \in {"open", "audio"}
    THEN [s EXCEPT !.res = "audio", !.audio = @ + 1]
    ELSE [s EXCEPT !.refused = TRUE]

\* The request arrives.  Without a url the handler answers 400 {error} and
\* returns; otherwise it spawns yt-dlp and attaches its handlers and the
\* pipe.
StreamRequest(hasUrl) ==
    /\ stream.st = "idle"
    /\ stream' = IF hasUrl
                 THEN [stream EXCEPT !.st = "spawned", !.proc = "running"]
                 ELSE [stream EXCEPT !.st = "rejected", !.res = "bad",
                                     !.contentType = "application/json"]
    /\ UNCHANGED <<engineVars, progress, outerVars>>

\* A chunk on the child's stdout.  The once('data') handler runs on the
\* first chunk (it sets the Content-Type and headersSent unless headersSent
\* is set already), then the pipe writes the chunk to the response.
StdoutData ==
    /\ stream.st = "spawned"
    /\ stream.stdout = "open"
    /\ stream.chunks < MaxChunks
    /\ LET first == stream.chunks = 0 /\ ~stream.headersSent
           s1 == IF first
                 THEN [stream EXCEPT !.headersSent = TRUE,
                                     !.contentType = "audio/mpeg"]
                 ELSE stream
       IN stream' = [PipeWrite(s1) EXCEPT !.chunks = @ + 1]
    /\ UNCHANGED <<engineVars, progress, outerVars>>

\* The stderr handler with an error that is written and leaves the response
\* open (res.write instead of res.json).
StderrDataKeepsOpen(hasError) ==
    /\ stream.st = "spawned"
    /\ stream.stderr = "open"
    /\ stream.stderrChunks < MaxChunks
    /\ LET s1 == [stream EXCEPT !.stderrChunks = @ + 1]
       IN stream' = IF hasError /\ ~s1.headersSent
                    THEN [s1 EXCEPT !.headersSent = TRUE, !.errors = @ + 1]
                    ELSE s1
    /\ UNCHANGED <<engineVars, progress, outerVars>>

\* A chunk on the child's stderr; hasError: it contains 'ERROR'.  The chunk
\* is kept; with 'ERROR' in it and headersSent not set, headersSent is set
\* and the 500 {error, details} response is sent.
StderrData(hasError) ==
    /\ stream.st = "spawned"
    /\ stream.stderr = "open"
    /\ stream.stderrChunks < MaxChunks
    /\ LET s1 == [stream EXCEPT !.stderrChunks = @ + 1]
       IN stream' = IF hasError /\ ~s1.headersSent
                    THEN SendError([s1 EXCEPT !.headersSent = TRUE])
                    ELSE s1
    /\ UNCHANGED <<engineVars, progress, outerVars>>

\* The child's stdout ends: the pipe ends the response (a response that is
\* finished already stays as it is).
StdoutEnd ==
    /\ stream.st = "spawned"
    /\ stream.stdout = "open"
    /\ stream' = [stream EXCEPT
                      !.stdout = "ended",
                      !.res = IF @ \in {"open", "audio"} THEN "ended" ELSE @]
    /\ UNCHANGED <<engineVars, progress, outerVars>>

\* The child's stderr ends.
StderrEnd ==
    /\ stream.st = "spawned"
    /\ stream.stderr = "open"
    /\ stream' = [stream EXCEPT !.stderr = "ended"]
    /\ UNCHANGED <<engineVars, progress, outerVars>>

\* The child's 'close' event, emitted once the process has ended and its
\* stdio streams are closed; nonzero: the exit code is not 0 (a killed
\* child closes with code null).  With a nonzero code and headersSent not
\* set the handler sends 500 {error, details}.
ChildClose(nonzero) ==
    /\ stream.st = "spawned"
    /\ stream.proc \in {"running", "killed"}
    /\ stream.stdout = "ended" /\ stream.stderr = "ended"
    /\ stream.proc = "killed" => nonzero
    /\ LET s1 == [stream EXCEPT !.proc = "closed"]
       IN stream' = IF nonzero /\ ~s1.headersSent THEN SendError(s1) ELSE s1
    /\ UNCHANGED <<engineVars, progress, outerVars>>

\* The request's 'close' handler without the kill: the child is left
\* running.
ClientCloseLeavesChild ==
    /\ stream.st = "spawned"
    /\ stream.client = "connected"
    /\ stream' = [stream EXCEPT !.client = "closed"]
    /\ UNCHANGED <<engineVars, progress, outerVars>>

\* The request's 'close' event (the client's connection closed):
\* ytdlp.kill().
ClientClose ==
    /\ stream.st = "spawned"
    /\ stream.client = "connected"
    /\ stream' = [stream EXCEPT
                      !.client = "closed",
                      !.proc = IF @ = "running" THEN "killed" ELSE @]
    /\ UNCHANGED <<engineVars, progress, outerVars>>

\* --------------------------------------------------- server: GET /api/info
\* The url query parameter as the handler's tests see it: "missing" (absent
\* or empty), "notString" (given more than once, or with brackets: the query
\* parser hands over an array or an object), "noId" (a string from which no
\* 11-character id comes out), "ok".
Urls == {"missing", "notString", "noId", "ok"}

\* res.status(code).json(body) on request q.
Respond(q, code, body) ==
    [q EXCEPT !.st = "done", !.sent = @ + 1, !.status = code, !.body = body]

\* The source tried after source s has failed.
NextSource(s) ==
    CHOOSE n \in 1..Len(Sources) : n > 1 /\ Sources[n - 1] = s

\* The request arrives.  Without a url: 400 {error}.  extractVideoId(url)
\* calls url.trim(): on a url that is no string it throws, and the outer
\* catch answers 500 {error, details}.  Without an 11-character id: 400
\* {error, details}.  Otherwise the first source is tried.
InfoRequest(r, url) ==
    /\ info[r].st = "idle"
    /\ info' = [info EXCEPT ![r] =
          LET q == [@ EXCEPT !.url = url]
          IN CASE url = "missing" -> Respond(q, 400, "error")
               [] url = "notString" -> Respond(q, 500, "error, details")
               [] url = "noId" -> Respond(q, 400, "error, details")
               [] OTHER -> [q EXCEPT !.st = Sources[1],
                                     !.tried = <<Sources[1]>>]]
    /\ UNCHANGED <<engineVars, progress, stream, app, poll, auth>>

\* The source being tried gives its metadata: responseMetadata is set, no
\* catch block runs, and res.json(responseMetadata) answers (status 200).
InfoSourceSucceeds(r) ==
    /\ info[r].st \in {Sources[n] : n \in 1..Len(Sources)}
    /\ info' = [info EXCEPT ![r] = Respond(@, 200, @.st)]
    /\ UNCHANGED <<engineVars, progress, stream, app, poll, auth>>

\* A failing source that makes the handler give up at once with the 500
\* answer.
InfoSourceFailsGivesUp(r) ==
    /\ info[r].st \in {Sources[n] : n \in 1..Len(Sources)}
    /\ info' = [info EXCEPT ![r] =
          Respond([@ EXCEPT !.failed = @ \cup {info[r].st}],
                  500, "error, details")]
    /\ UNCHANGED <<engineVars, progress, stream, app, poll, auth>>

\* The source being tried throws (or, for search, does not find the video):
\* its catch block tries the next source; the catch block of the last one
\* throws 'All metadata methods failed', and the outer catch answers 500
\* {error, details}.
InfoSourceFails(r) ==
    /\ info[r].st \in {Sources[n] : n \in 1..Len(Sources)}
    /\ info' = [info EXCEPT ![r] =
          LET q == [@ EXCEPT !.failed = @ \cup {info[r].st}]
          IN IF info[r].st = Sources[Len(Sources)]
             THEN Respond(q, 500, "error, details")
             ELSE [q EXCEPT !.st = Sources[NextSource(info[r].st)],
                            !.tried = Append(@, Sources[NextSource(info[r].st)])]]
    /\ UNCHANGED <<engineVars, progress, stream, app, poll, auth>>

\* ------------------------------------------------------ the App component
\* The App component calls the engine from its event handlers, one task
\* each.  A handler that awaits a load is cut where the engine is: at
\* `await this.initialize()`.  With the audio context running that await is
\* resumed in the same task, before any other event is handled; Resuming
\* says that such a resumption is due, and nothing else runs until it is
\* done.  (With the context suspended the await lasts until Tone.start()
\* resolves, and other handlers run in between.)
Resuming == ctxState = "running" /\ \E c \in Ids : calls[c].pc = "init"

\* engine.play(), pause() or stop() in stream mode dereferences
\* this.mediaElement: with a null handle the call throws a TypeError.
NullElement == mode = "stream" /\ mediaElement = NULL

\* engine.stop() as the value of every variable it writes, after it has run.
Stopped ==
    [transport |-> IF mode = "local" THEN TransportStop(transport)
                   ELSE transport,
     ctxState |-> ctxState,
     elems |-> IF mode = "stream" /\ mediaElement # NULL
               THEN [elems EXCEPT ![mediaElement] =
                        ElemSeek([@ EXCEPT !.paused = TRUE], 0)]
               ELSE elems,
     isPlaying |-> IF NullElement THEN isPlaying ELSE FALSE,
     threw |-> threw \/ NullElement]

\* engine.pause() as the value of every variable it writes.
Paused ==
    [transport |-> IF mode = "local" /\ transport.state = "started"
                   THEN [transport EXCEPT !.state = "paused"]
                   ELSE transport,
     ctxState |-> ctxState,
     elems |-> IF mode = "stream" /\ mediaElement # NULL
               THEN [elems EXCEPT ![mediaElement].paused = TRUE]
               ELSE elems,
     isPlaying |-> IF NullElement THEN isPlaying ELSE FALSE,
     threw |-> threw \/ NullElement]

\* engine.play() as the value of every variable it writes, run when the
\* media elements are es.
Played(es) ==
    [transport |-> IF mode = "local" /\ transport.state # "started"
                   THEN [transport EXCEPT !.state = "started"]
                   ELSE transport,
     ctxState |-> IF mode = "stream" /\ ctxState = "suspended"
                  THEN "running" ELSE ctxState,
     elems |-> IF mode = "stream" /\ mediaElement # NULL
               THEN [es EXCEPT ![mediaElement] = ElemPlay(@)]
               ELSE es,
     isPlaying |-> IF NullElement THEN isPlaying ELSE TRUE,
     threw |-> threw \/ NullElement]

\* handleFileChange(e) with a file chosen, up to engine.loadFile's first
\* await: setIsPlaying(false), engine.stop(), and the load is called.  (If
\* engine.stop() throws, the handler ends there.)
HandleFileChange ==
    /\ ~Resuming
    /\ nCalls < MaxCalls
    /\ transport' = Stopped.transport
    /\ elems' = Stopped.elems
    /\ isPlaying' = Stopped.isPlaying
    /\ threw' = Stopped.threw
    /\ lastCommand' = Noted("stop")
    /\ IF NullElement
       THEN UNCHANGED <<calls, nCalls>>
       ELSE /\ nCalls' = nCalls + 1
            /\ calls' = [calls EXCEPT ![nCalls + 1] =
                            [kind |-> "file", pc |-> "init", result |-> NaN,
                             before |-> NoSnapshot]]
    /\ app' = [app EXCEPT !.isPlaying = FALSE]
    /\ UNCHANGED <<player, mediaElement, mediaNode, pitchShift, mode,
                   currentRate, currentDetune, ctxState, players, nodes,
                   shifts, recording>>
    /\ UNCHANGED <<progress, stream, poll, info, auth>>

\* handleYoutubeLoad() with a URL entered (the Load button is disabled while
\* isLoadingYoutube), up to engine.loadUrl's first await:
\* setIsLoadingYoutube(true), setIsPlaying(false), engine.stop(), and the
\* load is called.
HandleYoutubeLoad ==
    /\ ~Resuming
    /\ ~app.isLoadingYoutube
    /\ nCalls < MaxCalls
    /\ transport' = Stopped.transport
    /\ elems' = Stopped.elems
    /\ isPlaying' = Stopped.isPlaying
    /\ threw' = Stopped.threw
    /\ lastCommand' = Noted("stop")
    /\ IF NullElement
       THEN UNCHANGED <<calls, nCalls>>
       ELSE /\ nCalls' = nCalls + 1
            /\ calls' = [calls EXCEPT ![nCalls + 1] =
                            [kind |-> "url", pc |-> "init", result |-> NaN,
                             before |-> NoSnapshot]]
    /\ app' = [app EXCEPT !.isLoadingYoutube = TRUE, !.isPlaying = FALSE]
    /\ UNCHANGED <<player, mediaElement, mediaNode, pitchShift, mode,
                   currentRate, currentDetune, ctxState, players, nodes,
                   shifts, recording>>
    /\ UNCHANGED <<progress, stream, poll, info, auth>>

\* togglePlay() that calls the engine and leaves the UI's flag as it was.
TogglePlayKeepsFlag ==
    /\ ~Resuming
    /\ app.isLoaded
    /\ LET e == IF app.isPlaying THEN Paused ELSE Played(elems)
       IN /\ transport' = e.transport
          /\ ctxState' = e.ctxState
          /\ elems' = e.elems
          /\ isPlaying' = e.isPlaying
          /\ threw' = e.threw
    /\ lastCommand' = Noted(IF app.isPlaying THEN "pause" ELSE "play")
    /\ UNCHANGED app
    /\ UNCHANGED <<player, mediaElement, mediaNode, pitchShift, mode,
                   currentRate, currentDetune, players, nodes, shifts,
                   calls, nCalls, recording>>
    /\ UNCHANGED <<progress, stream, poll, info, auth>>

\* togglePlay(): nothing unless isLoaded; engine.pause() when the UI's flag
\* is set, engine.play() otherwise; then setIsPlaying(!isPlaying).
TogglePlay ==
    /\ ~Resuming
    /\ app.isLoaded
    /\ LET e == IF app.isPlaying THEN Paused ELSE Played(elems)
       IN /\ transport' = e.transport
          /\ ctxState' = e.ctxState
          /\ elems' = e.elems
          /\ isPlaying' = e.isPlaying
          /\ threw' = e.threw
    /\ lastCommand' = Noted(IF app.isPlaying THEN "pause" ELSE "play")
    /\ app' = IF NullElement THEN app ELSE [app EXCEPT !.isPlaying = ~@]
    /\ UNCHANGED <<player, mediaElement, mediaNode, pitchShift, mode,
                   currentRate, currentDetune, players, nodes, shifts,
                   calls, nCalls, recording>>
    /\ UNCHANGED <<progress, stream, poll, info, auth>>

\* handleStop(): nothing unless isLoaded; engine.stop(), setIsPlaying(false).
HandleStop ==
    /\ ~Resuming
    /\ app.isLoaded
    /\ transport' = Stopped.transport
    /\ elems' = Stopped.elems
    /\ isPlaying' = Stopped.isPlaying
    /\ threw' = Stopped.threw
    /\ lastCommand' = Noted("stop")
    /\ app' = IF NullElement THEN app ELSE [app EXCEPT !.isPlaying = FALSE]
    /\ UNCHANGED <<player, mediaElement, mediaNode, pitchShift, mode,
                   currentRate, currentDetune, ctxState, players, nodes,
                   shifts, calls, nCalls, recording>>
    /\ UNCHANGED <<progress, stream, poll, info, auth>>

\* engine.loadFile resolves with dur (the completion of the load, as in
\* LoadFileDecoded) and handleFileChange goes on: setDuration(dur),
\* setIsLoaded(true).
HandleFileChangeLoaded(c, dur) ==
    /\ ~Resuming
    /\ calls[c].pc = "decoding"
    /\ players' = [players EXCEPT ![c] =
                      [st |-> "live", playbackRate |-> currentRate,
                       detune |-> currentDetune, duration |-> dur]]
    /\ player' = c
    /\ transport' = [transport EXCEPT !.scheduled = @ \cup {c}]
    /\ calls' = [calls EXCEPT ![c] = [@ EXCEPT !.pc = "resolved",
                                               !.result = dur,
                                               !.before = NoSnapshot]]
    /\ app' = [app EXCEPT !.duration = dur, !.isLoaded = TRUE]
    /\ UNCHANGED <<mediaElement, mediaNode, pitchShift, mode, isPlaying,
                   currentRate, currentDetune, ctxState, elems, nodes,
                   shifts, nCalls, recording, lastCommand, threw>>
    /\ UNCHANGED <<progress, stream, poll, info, auth>>

\* The loadedmetadata event of element c (as in MediaMetadata); when it
\* resolves engine.loadUrl, handleYoutubeLoad goes on: setDuration(dur),
\* setIsLoaded(true), engine.play(), setIsPlaying(true) and, finally,
\* setIsLoadingYoutube(false).
HandleYoutubeLoadLoaded(c, dur) ==
    /\ ~Resuming
    /\ elems[c].st = "attached"
    /\ elems[c].readyState < HaveMetadata
    /\ ~elems[c].failed
    /\ LET es == [elems EXCEPT ![c].readyState = HaveMetadata,
                               ![c].duration = dur]
           resolves == mediaElement # NULL /\ calls[c].pc = "pending"
       IN IF resolves
          THEN /\ calls' = [calls EXCEPT ![c] =
                              [@ EXCEPT !.pc = "resolved",
                                        !.result = es[mediaElement].duration,
                                        !.before = NoSnapshot]]
               /\ transport' = Played(es).transport
               /\ ctxState' = Played(es).ctxState
               /\ elems' = Played(es).elems
               /\ isPlaying' = Played(es).isPlaying
               /\ threw' = Played(es).threw
               /\ lastCommand' = Noted("play")
               /\ app' = [app EXCEPT
                             !.duration = es[mediaElement].duration,
                             !.isLoaded = TRUE,
                             !.isPlaying = IF NullElement THEN @ ELSE TRUE,
                             !.isLoadingYoutube = FALSE]
          ELSE /\ elems' = es
               /\ UNCHANGED <<calls, transport, ctxState, isPlaying, threw,
                              lastCommand, app>>
    /\ UNCHANGED <<player, mediaElement, mediaNode, pitchShift, mode,
                   currentRate, currentDetune, players, nodes, shifts,
                   nCalls, recording>>
    /\ UNCHANGED <<progress, stream, poll, info, auth>>

\* The error event of element c (as in MediaError); when it rejects
\* engine.loadUrl, handleYoutubeLoad's catch and finally run:
\* setIsLoadingYoutube(false).
HandleYoutubeLoadFailed(c) ==
    /\ ~Resuming
    /\ \/ elems[c].st = "attached" /\ ~elems[c].failed
       \/ elems[c].st = "detached" /\ elems[c].abortError
    /\ elems' = [elems EXCEPT ![c].failed = (elems[c].st = "attached"),
                              ![c].abortError = FALSE]
    /\ calls' = IF calls[c].pc = "pending"
                THEN [calls EXCEPT ![c] = [@ EXCEPT !.pc = "rejected",
                                                    !.before = NoSnapshot]]
                ELSE calls
    /\ app' = IF calls[c].pc = "pending"
              THEN [app EXCEPT !.isLoadingYoutube = FALSE]
              ELSE app
    /\ UNCHANGED <<engineFields, toneVars, players, nodes, shifts, nCalls,
                   recording, lastCommand, threw>>
    /\ UNCHANGED <<progress, stream, poll, info, auth>>

\* ------------------------------------------- the App component: polling
\* stopPolling(): the timer pollInterval.current names is cleared and the
\* ref is reset.
StopPolling(p) ==
    IF p.pollInterval # NULL
    THEN [p EXCEPT !.timers = @ \ {p.pollInterval}, !.pollInterval = NULL]
    ELSE p

\* startPolling() that sets a new timer without stopPolling() first.
StartPollingKeepsTimer(p) ==
    [p EXCEPT !.nTimers = @ + 1,
              !.timers = @ \cup {p.nTimers + 1},
              !.pollInterval = p.nTimers + 1]

\* startPolling(): stopPolling(), then pollInterval.current = setInterval(...)
\* (setInterval returns an id no other timer of the page has).
StartPolling(p) ==
    [StopPolling(p) EXCEPT !.nTimers = @ + 1,
                           !.timers = @ \cup {p.nTimers + 1},
                           !.pollInterval = p.nTimers + 1]

\* handleLogin() up to its await: the Sign In button is shown while no user
\* is set and enabled while isAuthenticating is false.
HandleLogin ==
    /\ poll.mounted
    /\ ~poll.user
    /\ ~poll.isAuthenticating
    /\ poll.nTimers < MaxTimers
    /\ poll' = [poll EXCEPT !.isAuthenticating = TRUE]
    /\ UNCHANGED <<engineVars, progress, stream, app, info, auth>>

\* The login request settles; ok: the response was read.  handleLogin goes
\* on: setAuthData(data) and startPolling() when ok, the alert otherwise,
\* and finally setIsAuthenticating(false).
LoginResponse(ok) ==
    /\ poll.isAuthenticating
    /\ poll' = IF ok
               THEN [StartPolling(poll) EXCEPT !.isAuthenticating = FALSE,
                                               !.authData = TRUE]
               ELSE [poll EXCEPT !.isAuthenticating = FALSE]
    /\ UNCHANGED <<engineVars, progress, stream, app, info, auth>>

\* A polling timer fires: checkAuthStatus() sends its request.
TimerFires(t) ==
    /\ t \in poll.timers
    /\ poll.checks < MaxChecks
    /\ poll' = [poll EXCEPT !.checks = @ + 1]
    /\ UNCHANGED <<engineVars, progress, stream, app, info, auth>>

\* A status request settles; loggedIn: it answered logged_in true.
\* checkAuthStatus goes on: setUser, setAuthData(null) and stopPolling()
\* when loggedIn, nothing otherwise.
StatusResponse(loggedIn) ==
    /\ poll.checks > 0
    /\ poll' = IF loggedIn
               THEN [StopPolling(poll) EXCEPT !.checks = @ - 1,
                                              !.user = TRUE,
                                              !.authData = FALSE]
               ELSE [poll EXCEPT !.checks = @ - 1]
    /\ UNCHANGED <<engineVars, progress, stream, app, info, auth>>

\* handleLogout(), at the point its request has resolved: setUser(null),
\* setAuthData(null).
HandleLogout ==
    /\ poll.mounted
    /\ poll.user
    /\ poll' = [poll EXCEPT !.user = FALSE, !.authData = FALSE]
    /\ UNCHANGED <<engineVars, progress, stream, app, info, auth>>

\* The Cancel button of the sign-in panel (shown while authData is set and
\* no user is): setAuthData(null).
CancelLogin ==
    /\ poll.mounted
    /\ poll.authData /\ ~poll.user
    /\ poll' = [poll EXCEPT !.authData = FALSE]
    /\ UNCHANGED <<engineVars, progress, stream, app, info, auth>>

\* The component unmounts: the mount effect's cleanup calls stopPolling().
\* Requests in flight and timers set later are not affected.
Unmount ==
    /\ poll.mounted
    /\ poll' = [StopPolling(poll) EXCEPT !.mounted = FALSE]
    /\ UNCHANGED <<engineVars, progress, stream, app, info, auth>>

\* ------------------------------------------------------------ specification
Next ==
    \/ LoadFileCall
    \/ \E c \in Ids : LoadFileTeardown(c)
    \/ \E c \in Ids : LoadFileRead(c)
    \/ \E c \in Ids, dur \in Durations : LoadFileDecoded(c, dur)
    \/ \E c \in Ids : LoadFileDecodeFailed(c)
    \/ LoadUrlCall
    \/ \E c \in Ids, known \in Durations \cup {NaN} : LoadUrlConstruct(c, known)
    \/ \E c \in Ids, dur \in Durations : MediaMetadata(c, dur)
    \/ \E c \in Ids : MediaError(c)
    \/ Play
    \/ Pause
    \/ Stop
    \/ \E rate \in Rates : SetPlaybackRate(rate)
    \/ \E cents \in Cents : SetDetune(cents)
    \/ \E seconds \in Times : Seek(seconds)
    \/ Tick

Spec == Init /\ [][Next]_vars

SpecRecording == InitRecording /\ [][Next]_vars

\* Only loadUrl loads are issued: the transport commands, the media events
\* and the clock are as in Spec.
NextStream ==
    \/ LoadUrlCall
    \/ \E c \in Ids, known \in Durations \cup {NaN} : LoadUrlConstruct(c, known)
    \/ \E c \in Ids, dur \in Durations : MediaMetadata(c, dur)
    \/ \E c \in Ids : MediaError(c)
    \/ Play
    \/ Pause
    \/ Stop
    \/ \E rate \in Rates : SetPlaybackRate(rate)
    \/ \E cents \in Cents : SetDetune(cents)
    \/ \E seconds \in Times : Seek(seconds)
    \/ Tick

SpecStream == Init /\ [][NextStream]_vars

\* The loads, the media events and the two parameter commands over the
\* wider ranges; play(), pause(), stop(), seek() and the clocks, which
\* neither read nor write a rate or a detune, are left out.
NextParameters ==
    \/ LoadFileCall
    \/ \E c \in Ids : LoadFileTeardown(c)
    \/ \E c \in Ids : LoadFileRead(c)
    \/ \E c \in Ids, dur \in Durations : LoadFileDecoded(c, dur)
    \/ \E c \in Ids : LoadFileDecodeFailed(c)
    \/ LoadUrlCall
    \/ \E c \in Ids, known \in Durations \cup {NaN} : LoadUrlConstruct(c, known)
    \/ \E c \in Ids, dur \in Durations : MediaMetadata(c, dur)
    \/ \E c \in Ids : MediaError(c)
    \/ \E rate \in ParamRates : SetPlaybackRate(rate)
    \/ \E cents \in ParamCents : SetDetune(cents)

SpecParameters == Init /\ [][NextParameters]_vars

\* The engine with the loads and the transport commands only (the rate and
\* the detune stay at their defaults), and with the last play(), pause() or
\* stop() call recorded.
NextTransport ==
    \/ LoadFileCall
    \/ \E c \in Ids : LoadFileTeardown(c)
    \/ \E c \in Ids : LoadFileRead(c)
    \/ \E c \in Ids, dur \in Durations : LoadFileDecoded(c, dur)
    \/ \E c \in Ids : LoadFileDecodeFailed(c)
    \/ LoadUrlCall
    \/ \E c \in Ids, known \in Durations \cup {NaN} : LoadUrlConstruct(c, known)
    \/ \E c \in Ids, dur \in Durations : MediaMetadata(c, dur)
    \/ \E c \in Ids : MediaError(c)
    \/ Play
    \/ Pause
    \/ Stop
    \/ \E seconds \in Times : Seek(seconds)
    \/ Tick

SpecTransport == InitTransport /\ [][NextTransport]_vars

\* The stream side of the engine with the intermediate media events, and
\* with the message last handed to onProgress recorded.
NextProgress ==
    \/ LoadUrlCall
    \/ \E c \in Ids, known \in Durations \cup {NaN} : LoadUrlConstruct(c, known)
    \/ \E c \in Ids, dur \in Durations : MediaMetadata(c, dur)
    \/ \E c \in Ids : MediaError(c)
    \/ Play
    \/ Pause
    \/ Stop
    \/ \E rate \in Rates : SetPlaybackRate(rate)
    \/ \E cents \in Cents : SetDetune(cents)
    \/ \E seconds \in Times : Seek(seconds)
    \/ Tick
    \/ \E c \in Ids, msg \in Signals : MediaSignal(c, msg)

SpecProgress == InitProgress /\ [][NextProgress]_vars

\* One request to the stream endpoint, the engine left as constructed.
NextServer ==
    \/ \E hasUrl \in BOOLEAN : StreamRequest(hasUrl)
    \/ StdoutData
    \/ \E hasError \in BOOLEAN : StderrData(hasError)
    \/ StdoutEnd
    \/ StderrEnd
    \/ \E nonzero \in BOOLEAN : ChildClose(nonzero)
    \/ ClientClose

SpecServer == Init /\ [][NextServer]_vars

\* The App component driving the engine: its four handlers, the
\* resumption of the loads they called, and the completion of those loads.
\* A media element constructed in a task has no metadata in that task
\* (readyState is 0 until the element has selected its resource), so a load
\* constructs with no duration known.
NextApp ==
    \/ HandleFileChange
    \/ HandleYoutubeLoad
    \/ TogglePlay
    \/ HandleStop
    \/ \E c \in Ids : LoadFileTeardown(c)
    \/ \E c \in Ids : LoadUrlConstruct(c, NaN)
    \/ \E c \in Ids : ~Resuming /\ LoadFileRead(c)
    \/ \E c \in Ids : ~Resuming /\ LoadFileDecodeFailed(c)
    \/ \E c \in Ids, dur \in Durations : HandleFileChangeLoaded(c, dur)
    \/ \E c \in Ids, dur \in Durations : HandleYoutubeLoadLoaded(c, dur)
    \/ \E c \in Ids : HandleYoutubeLoadFailed(c)

SpecApp == Init /\ [][NextApp]_vars

\* The authorization polling of the App component, the engine left as
\* constructed.
NextPolling ==
    \/ HandleLogin
    \/ \E ok \in BOOLEAN : LoginResponse(ok)
    \/ \E t \in 1..MaxTimers : TimerFires(t)
    \/ \E loggedIn \in BOOLEAN : StatusResponse(loggedIn)
    \/ HandleLogout
    \/ CancelLogin
    \/ Unmount

SpecPolling == InitPolling /\ [][NextPolling]_vars

\* Requests to the info endpoint, each cut at the awaits of its handler.
NextInfo ==
    \/ \E r \in Requests, url \in Urls : InfoRequest(r, url)
    \/ \E r \in Requests : InfoSourceSucceeds(r)
    \/ \E r \in Requests : InfoSourceFails(r)

SpecInfo == Init /\ [][NextInfo]_vars

\* ---------------------------------------------------------------------
\* The auth module of the server (server/auth.js). Each exported function
\* is async: a call runs to its next await in one step, and resumes in a
\* later one when the awaited library promise settles. The library
\* (youtubei.js) is the environment: Innertube.create() and
\* session.signIn(creds) resolve or reject, session.signOut() rejects at
\* once on a session that is not logged in and otherwise resolves or rejects,
\* and a device flow begun by session.signIn() emits 'auth-pending', then
\* 'auth' or 'auth-error'. The call to account.getInfo() that initYoutube
\* makes for its log line is not followed as a step of its own.

\* Call p of the auth module returns res.
Returned(a, p, res) ==
    [a EXCEPT !.op[p].pc = "done", !.op[p].result = res]

\* Call p goes on after `await initYoutube()` (startAuthFlow) or
\* `await getYoutube()` (getSessionStatus); both hand it the module variable
\* youtube as it is when they return. startAuthFlow registers its listeners
\* on that instance and calls session.signIn() (on null the executor throws
\* and the promise rejects); getSessionStatus answers logged_in false unless
\* the session is logged in, and then awaits account.getInfo().
AfterInit(a, p) ==
    LET yt == a.youtube
    IN  IF a.op[p].kind = "login"
        THEN IF yt = NULL
             THEN Returned(a, p, "error")
             ELSE [a EXCEPT !.op[p].pc = "waitCode", !.op[p].yt = yt]
        ELSE IF yt = NULL \/ a.session[yt] # "in"
             THEN Returned(a, p, "out")
             ELSE [a EXCEPT !.op[p].pc = "info", !.op[p].yt = yt]

\* initYoutube() up to its first await: the instance at hand is returned,
\* and with none Innertube.create() is started.
InitYoutube(a, p) ==
    IF a.youtube # NULL
    THEN AfterInit(a, p)
    ELSE [a EXCEPT !.op[p].pc = "creating"]

\* A request to /api/auth/status calls getSessionStatus().
GetSessionStatus(p) ==
    /\ auth.op[p].kind = "none"
    /\ auth' = InitYoutube([auth EXCEPT !.op[p].kind = "status",
                                        !.op[p].epoch = auth.outs], p)
    /\ UNCHANGED <<engineVars, progress, stream, app, poll, info>>

\* A request to /api/auth/login calls startAuthFlow().
StartAuthFlow(p) ==
    /\ auth.op[p].kind = "none"
    /\ auth' = InitYoutube([auth EXCEPT !.op[p].kind = "login",
                                        !.op[p].epoch = auth.outs], p)
    /\ UNCHANGED <<engineVars, progress, stream, app, poll, info>>

\* Innertube.create() resolves for call p: youtube is assigned the new
\* instance; with a credentials file the credentials are read and
\* youtube.session.signIn(creds) is awaited, without one initYoutube returns.
InitYoutubeCreated(p) ==
    /\ auth.op[p].pc = "creating"
    /\ LET a == [auth EXCEPT !.youtube = p, !.session[p] = "out",
                             !.made = @ + 1]
       IN  auth' = IF auth.file
                   THEN [a EXCEPT !.op[p].pc = "restoring"]
                   ELSE AfterInit(a, p)
    /\ UNCHANGED <<engineVars, progress, stream, app, poll, info>>

\* Innertube.create() rejects: the catch block logs, youtube is returned as
\* it is.
InitYoutubeCreateFailed(p) ==
    /\ auth.op[p].pc = "creating"
    /\ auth' = AfterInit(auth, p)
    /\ UNCHANGED <<engineVars, progress, stream, app, poll, info>>

\* session.signIn(creds) resolves: the instance that call p created is
\* logged in. (When youtube is null by now, reading youtube.session throws
\* into the catch block; youtube is returned either way.)
InitYoutubeRestored(p) ==
    /\ auth.op[p].pc = "restoring"
    /\ auth' = AfterInit([auth EXCEPT !.session[p] = "in"], p)
    /\ UNCHANGED <<engineVars, progress, stream, app, poll, info>>

\* session.signIn(creds) rejects.
InitYoutubeRestoreFailed(p) ==
    /\ auth.op[p].pc = "restoring"
    /\ auth' = AfterInit(auth, p)
    /\ UNCHANGED <<engineVars, progress, stream, app, poll, info>>

\* account.getInfo() settles for getSessionStatus: logged_in true with the
\* name it found, logged_in false without a name or on an error.
StatusInfo(p, named) ==
    /\ auth.op[p].pc = "info"
    /\ auth' = Returned(auth, p, IF named THEN "in" ELSE "out")
    /\ UNCHANGED <<engineVars, progress, stream, app, poll, info>>

\* 'auth-pending': handleAuth resolves startAuthFlow's promise with the
\* verification data; the listeners stay registered.
HandleAuth(p) ==
    /\ auth.op[p].pc = "waitCode"
    /\ auth' = [auth EXCEPT !.op[p].pc = "polling", !.op[p].result = "code"]
    /\ UNCHANGED <<engineVars, progress, stream, app, poll, info>>

\* 'auth': the session of the flow's instance is logged in, handleSuccess
\* writes its tokens to the credentials file and removes the listeners.
HandleSuccess(p) ==
    /\ auth.op[p].pc = "polling"
    /\ auth' = [auth EXCEPT !.session[auth.op[p].yt] = "in",
                            !.file = TRUE,
                            !.clean = IF auth.op[p].epoch = auth.outs
                                      THEN FALSE ELSE @,
                            !.op[p].pc = "done"]
    /\ UNCHANGED <<engineVars, progress, stream, app, poll, info>>

\* 'auth-error': handleError rejects the promise (without effect once it is
\* resolved) and removes the listeners.
HandleError(p) ==
    /\ auth.op[p].pc \in {"waitCode", "polling"}
    /\ auth' = [auth EXCEPT !.op[p].pc = "done",
                            !.op[p].result = IF auth.op[p].pc = "waitCode"
                                             THEN "error" ELSE @]
    /\ UNCHANGED <<engineVars, progress, stream, app, poll, info>>

\* The end of signOut(): the credentials file is deleted if it exists and
\* {success: true} is returned.
Unlink(a, p) ==
    Returned([a EXCEPT !.file = FALSE, !.outs = @ + 1, !.made = 0,
                       !.clean = TRUE], p, "success")

\* A request to /api/auth/logout calls signOut(): with an instance its
\* session.signOut() is awaited (it rejects at once on a session that is not
\* logged in, and signOut() with it), without one the file is deleted
\* straight away.
SignOut(p) ==
    /\ auth.op[p].kind = "none"
    /\ LET a == [auth EXCEPT !.op[p].kind = "logout",
                             !.op[p].epoch = auth.outs]
       IN  auth' = IF auth.youtube = NULL
                   THEN Unlink(a, p)
                   ELSE IF auth.session[auth.youtube] = "in"
                   THEN [a EXCEPT !.op[p].pc = "revoking",
                                  !.op[p].yt = auth.youtube]
                   ELSE Returned(a, p, "error")
    /\ UNCHANGED <<engineVars, progress, stream, app, poll, info>>

\* session.signOut() resolves: the session is logged out, youtube is set to
\* null and the file is deleted.
SignOutRevoked(p) ==
    /\ auth.op[p].pc = "revoking"
    /\ auth' = Unlink([auth EXCEPT !.session[auth.op[p].yt] = "out",
                                   !.youtube = NULL], p)
    /\ UNCHANGED <<engineVars, progress, stream, app, poll, info>>

\* session.signOut() rejects, and signOut() with it.
SignOutFailed(p) ==
    /\ auth.op[p].pc = "revoking"
    /\ auth' = Returned(auth, p, "error")
    /\ UNCHANGED <<engineVars, progress, stream, app, poll, info>>

\* Requests to the three auth endpoints, in any order and overlapping.
NextAuth ==
    \/ \E p \in Ops : GetSessionStatus(p)
    \/ \E p \in Ops : StartAuthFlow(p)
    \/ \E p \in Ops : SignOut(p)
    \/ \E p \in Ops : InitYoutubeCreated(p)
    \/ \E p \in Ops : InitYoutubeCreateFailed(p)
    \/ \E p \in Ops : InitYoutubeRestored(p)
    \/ \E p \in Ops : InitYoutubeRestoreFailed(p)
    \/ \E p \in Ops, named \in BOOLEAN : StatusInfo(p, named)
    \/ \E p \in Ops : HandleAuth(p)
    \/ \E p \in Ops : HandleSuccess(p)
    \/ \E p \in Ops : HandleError(p)
    \/ \E p \in Ops : SignOutRevoked(p)
    \/ \E p \in Ops : SignOutFailed(p)

SpecAuth == InitAuth /\ [][NextAuth]_vars

\* What the engine's environment does in the end: an await on initialize()
\* is resumed, and a media element delivers an event it owes -- metadata or
\* an error while it has a resource, the queued error once its src was
\* cleared.
Fairness ==
    \A c \in Ids :
        /\ WF_vars(LoadFileTeardown(c))
        /\ WF_vars(\E known \in Durations \cup {NaN} :
                      LoadUrlConstruct(c, known))
        /\ WF_vars(\/ MediaError(c)
                   \/ \E dur \in Durations : MediaMetadata(c, dur))

\* The loads, the media events, the transport commands and the clock under
\* that scheduling (the rate and detune commands, which touch neither a call
\* nor the life of an element, are left out).
SpecFair == Init /\ [][NextTransport]_vars /\ Fairness

\* =================================================================== claims
\* The resources call c constructed that are still allocated.
Allocated(c) ==
    \/ players[c].st = "live"
    \/ elems[c].st = "attached"
    \/ nodes[c] = "connected"
    \/ shifts[c].st = "live"

AllocatedCount == Cardinality({c \in Ids : Allocated(c)})

\* The engine holds no backend handle.
NoBackend ==
    /\ player = NULL
    /\ mediaElement = NULL
    /\ mediaNode = NULL
    /\ pitchShift = NULL

\* The load that ran its teardown last (0 before the first one).
Current ==
    IF \E c \in Ids : PastInit(c)
    THEN CHOOSE c \in Ids : PastInit(c) /\ \A d \in Ids : PastInit(d) => d <= c
    ELSE 0

\* The step settles call c (its promise resolves or rejects).
Settles(c) ==
    /\ calls[c].pc \notin {"resolved", "rejected"}
    /\ calls'[c].pc \in {"resolved", "rejected"}

Rejects(c) == calls[c].pc # "rejected" /\ calls'[c].pc = "rejected"

\* C1: in every reachable state the number of backend resource sets
\* constructed and not yet disposed is 0 or 1.
C1_AtMostOneAllocated == AllocatedCount <= 1

\* C2: with loadUrl loads only, once the latest load B has constructed its
\* backend, mode is 'stream', the stream handles are B's, there is no player
\* and no other call's resources are allocated; and a metadata or error
\* event of a superseded call's element leaves every engine field unchanged.
C2_SupersededUrlIsInert ==
    [][/\ Current' # 0 =>
            /\ mode' = "stream"
            /\ mediaElement' = Current'
            /\ mediaNode' = Current'
            /\ pitchShift' = Current'
            /\ player' = NULL
            /\ \A c \in Ids : Allocated(c)' => c = Current'
       /\ \A c \in Ids :
            (/\ Superseded(c)
             /\ \/ MediaError(c)
                \/ \E dur \in Durations : MediaMetadata(c, dur))
            => UNCHANGED engineFields]_vars

\* C2 witness: the first loadUrl was superseded by the second before its
\* metadata arrived, the second is active, and the first one's error event
\* has been delivered and has rejected it.
C2_Witness ==
    /\ MaxCalls >= 2
    /\ calls[1].kind = "url" /\ calls[1].pc = "rejected"
    /\ elems[1].st = "detached" /\ ~elems[1].abortError
    /\ calls[2].kind = "url" /\ mediaElement = 2

\* C3: the completion (success or failure) of a loadFile decode that was
\* superseded by a later load changes no engine field.
C3_SupersededDecodeChangesNothing ==
    [][\A c \in Ids :
          (calls[c].pc = "decoding" /\ Superseded(c) /\ Settles(c))
          => UNCHANGED engineFields]_vars

\* C4: the player handle and the stream handles are never non-null at the
\* same time.
C4_OneKindOfBackend ==
    ~(/\ player # NULL
      /\ (mediaElement # NULL \/ mediaNode # NULL \/ pitchShift # NULL))

\* C5: when a load call fails, what is observable of the engine (mode,
\* isPlaying, the backend handles, getCurrentTime(), getDuration()) equals
\* what it was when the call was made.
C5_FailedLoadRestoresState ==
    [][\A c \in Ids : Rejects(c) => Observed' = calls[c].before]_vars

\* C6: when the element of a loadUrl call made in Idle reports an error
\* before metadata, the call is rejected and afterwards mode is 'none' and
\* getDuration() is 0.
C6_FailedUrlLeavesIdle ==
    [][\A c \in Ids :
          (/\ calls[c].kind = "url"
           /\ calls[c].before.mode = "none"
           /\ calls[c].pc = "pending"
           /\ MediaError(c))
          => (calls'[c].pc = "rejected" /\ mode' = "none"
              /\ GetDuration' = 0)]_vars

\* C7: when decoding fails in loadFile the call is rejected, no player is
\* constructed for it and the engine is not left in local mode.
C7_FailedDecodeInstallsNothing ==
    [][\A c \in Ids :
          LoadFileDecodeFailed(c)
          => (calls'[c].pc = "rejected" /\ players'[c].st = "absent"
              /\ mode' # "local")]_vars

\* C8: with mode = none, no transport or parameter command throws, and
\* after each of them getCurrentTime() and getDuration() return 0.
C8_IdleCommandsAreSafe ==
    [][(/\ mode = "none"
        /\ \/ Play \/ Pause \/ Stop
           \/ \E seconds \in Times : Seek(seconds)
           \/ \E rate \in Rates : SetPlaybackRate(rate)
           \/ \E cents \in Cents : SetDetune(cents))
       => (~threw' /\ GetCurrentTime' = 0 /\ GetDuration' = 0)]_vars

\* C8 witness: in mode none, play(), setPlaybackRate and setDetune have
\* acted and nothing has thrown.
C8_Witness ==
    /\ mode = "none"
    /\ isPlaying
    /\ currentRate # DefaultRate
    /\ currentDetune # DefaultDetune
    /\ ~threw

\* C9: with no backend active, play(), pause(), stop() and seek(t) leave
\* every engine field as it was.
C9_IdleTransportIsNoOp ==
    [][(/\ NoBackend
        /\ \/ Play \/ Pause \/ Stop
           \/ \E seconds \in Times : Seek(seconds))
       => UNCHANGED engineFields]_vars

BackendActive ==
    \/ mode = "local" /\ player # NULL
    \/ mode = "stream" /\ mediaElement # NULL

\* The active backend's rate control: the player's playbackRate in local
\* mode, the media element's in stream mode.
RateControl ==
    IF mode = "local" THEN players[player].playbackRate
    ELSE elems[mediaElement].playbackRate

\* The active backend's pitch control: the player's detune (cents) in local
\* mode, the pitch shifter's pitch (semitones) in stream mode.
PitchControl ==
    IF mode = "local" THEN players[player].detune
    ELSE shifts[pitchShift].pitch

\* C11: with a backend active, setPlaybackRate(r) leaves the backend's rate
\* control at r, and a setDetune(d) after it leaves the rate control where it
\* was and the pitch control at d cents in local mode, at d / 100 semitones
\* in stream mode; setDetune(700) in stream mode gives exactly 7 semitones.
C11_ParametersReachBackend ==
    [][/\ \A rate \in ParamRates :
             (BackendActive /\ SetPlaybackRate(rate))
                 => (RateControl' = rate /\ currentRate' = rate)
       /\ \A cents \in ParamCents :
             (BackendActive /\ SetDetune(cents))
                 => /\ RateControl' = RateControl
                    /\ currentDetune' = cents
                    /\ PitchControl' = IF mode = "local" THEN cents
                                       ELSE Semitones(cents)
       /\ (BackendActive /\ mode = "stream" /\ SetDetune(700))
             => PitchControl' = [whole |-> 7, hundredths |-> 0]]_vars

\* A stream backend whose rate control is 2.0 and whose pitch control is 7
\* semitones, the values last set.
C11_Witness ==
    /\ mode = "stream"
    /\ mediaElement # NULL
    /\ currentRate = 200 /\ RateControl = 200
    /\ currentDetune = 700
    /\ PitchControl = [whole |-> 7, hundredths |-> 0]


C13_StopRewinds ==
    [][(BackendActive /\ Stop)
          => /\ GetCurrentTime' = 0
             /\ isPlaying' = FALSE
             /\ threw' = FALSE
             /\ UNCHANGED <<mode, player, mediaElement, mediaNode,
                            pitchShift>>
             /\ BackendActive']_vars

\* stop() was the last of the play, pause and stop calls on the active
\* backend: the backend is stopped at position 0.
C13_Witness ==
    /\ BackendActive
    /\ lastCommand = "stop"
    /\ ~isPlaying
    /\ GetCurrentTime = 0
    /\ IF mode = "local" THEN transport.state = "stopped"
       ELSE elems[mediaElement].paused


\* The active backend's clock is running: the transport is started (local)
\* or the media element is not paused (stream).
ClockRunning ==
    IF mode = "local" THEN transport.state = "started"
    ELSE ~elems[mediaElement].paused

\* C14: with a backend active, pause() leaves isPlaying false, the clock not
\* running and the position where it was at the call; a play() following the
\* pause() leaves the position there too, so playback resumes from it.
C14_PauseKeepsPosition ==
    [][/\ (BackendActive /\ Pause)
             => /\ isPlaying' = FALSE
                /\ ~ClockRunning'
                /\ GetCurrentTime' = GetCurrentTime
                /\ threw' = FALSE
       /\ (BackendActive /\ lastCommand = "pause" /\ Play)
             => /\ isPlaying' = TRUE
                /\ GetCurrentTime' = GetCurrentTime]_vars

\* pause() was the last of the play, pause and stop calls on the active
\* backend, and the backend rests at a position past the start.
C14_Witness ==
    /\ BackendActive
    /\ lastCommand = "pause"
    /\ ~isPlaying
    /\ ~ClockRunning
    /\ GetCurrentTime > 0

\* The position seek(seconds) leaves: a media element that knows its
\* duration does not go past it.
SeekTarget(seconds) ==
    IF /\ mode = "stream"
       /\ elems[mediaElement].duration # NaN
       /\ seconds > elems[mediaElement].duration
    THEN elems[mediaElement].duration
    ELSE seconds

\* C15 as stated: with a backend active, seek(t) leaves getCurrentTime() at
\* t, and isPlaying and the clock's running or paused state as they were.
C15_SeekSetsPosition ==
    [][\A t \in Times :
          (BackendActive /\ Seek(t))
              => /\ GetCurrentTime' = t
                 /\ isPlaying' = isPlaying
                 /\ ClockRunning' = ClockRunning]_vars

\* C15 amended: with a backend active, seek(t) leaves getCurrentTime() at t,
\* or at the duration when a stream's known duration is less than t, and
\* isPlaying and the clock's running or paused state as they were.
C15_SeekSetsPositionWithinSource ==
    [][\A t \in Times :
          (BackendActive /\ Seek(t))
              => /\ GetCurrentTime' = SeekTarget(t)
                 /\ isPlaying' = isPlaying
                 /\ ClockRunning' = ClockRunning
                 /\ transport'.state = transport.state
                 /\ threw' = FALSE]_vars

\* No play, pause or stop was called since the load, and the backend rests
\* at a position past the start: seek put it there.
C15_Witness ==
    /\ BackendActive
    /\ lastCommand = "none"
    /\ ~isPlaying
    /\ ~ClockRunning
    /\ GetCurrentTime > 0

\* C16: with a backend active, after each play(), pause() or stop() call
\* isPlaying is true exactly when the call was play(), and the backend's
\* clock is running exactly when isPlaying is true.
C16_PlayingIffLastWasPlay ==
    [][(BackendActive /\ (Play \/ Pause \/ Stop))
          => /\ isPlaying' <=> lastCommand' = "play"
             /\ ClockRunning' <=> isPlaying']_vars

\* No duration is known: no backend, a local decode still pending, or a
\* stream element that has no metadata yet.
NoDurationKnown ==
    \/ mode = "none"
    \/ mode = "local" /\ player = NULL
    \/ mode = "stream" /\ mediaElement = NULL
    \/ mode = "stream" /\ mediaElement # NULL
          /\ elems[mediaElement].duration = NaN

\* C17: getDuration() is 0 whenever no duration is known, and the active
\* backend's duration otherwise.
C17_UnknownDurationIsZero ==
    IF NoDurationKnown THEN GetDuration = 0
    ELSE IF mode = "local" THEN GetDuration = players[player].duration
    ELSE GetDuration = elems[mediaElement].duration

C19_RateAndPitchIndependent ==
    [][/\ \A rate \in ParamRates :
             SetPlaybackRate(rate)
                 => /\ currentDetune' = currentDetune
                    /\ shifts' = shifts
                    /\ \A c \in Ids : players'[c].detune = players[c].detune
                    /\ mode = "stream" => players' = players
       /\ \A cents \in ParamCents :
             SetDetune(cents)
                 => /\ currentRate' = currentRate
                    /\ elems' = elems
                    /\ \A c \in Ids :
                          players'[c].playbackRate = players[c].playbackRate
                    /\ mode = "stream" => players' = players]_vars

\* A stream backend whose rate control was set to 2.0 while its pitch
\* control is still at the default detune.
C19_Witness ==
    /\ mode = "stream"
    /\ mediaElement # NULL
    /\ currentRate = 200 /\ RateControl = 200
    /\ currentDetune = DefaultDetune
    /\ PitchControl = Semitones(DefaultDetune)

\* C20: at the step a load resolves, the backend it constructed has its rate
\* control at currentRate and its pitch control at currentDetune cents
\* (local) or currentDetune / 100 semitones (stream), whatever was set
\* before the load or while it was pending.
C20_LoadAppliesParameters ==
    [][\A c \in Ids :
          (calls[c].pc # "resolved" /\ calls'[c].pc = "resolved")
              => IF calls[c].kind = "file"
                 THEN /\ players'[c].st = "live"
                      /\ players'[c].playbackRate = currentRate'
                      /\ players'[c].detune = currentDetune'
                 ELSE /\ elems'[c].st = "attached"
                      /\ elems'[c].playbackRate = currentRate'
                      /\ shifts'[c].st = "live"
                      /\ shifts'[c].pitch = Semitones(currentDetune')]_vars

\* A local load has resolved and its player carries a rate of 0.5 and a
\* detune of -150 cents, the values stored in the engine.
C20_Witness ==
    \E c \in Ids :
        /\ calls[c].kind = "file" /\ calls[c].pc = "resolved"
        /\ mode = "local" /\ player = c
        /\ currentRate = 50 /\ players[c].playbackRate = 50
        /\ currentDetune = -150 /\ players[c].detune = -150

\* C21: a call that a later load has superseded never reports a failure to
\* its caller: once superseded, it is not rejected.
C21_SupersededNeverRejects ==
    [][\A c \in Ids :
          (Superseded(c) /\ calls[c].pc # "rejected")
              => calls'[c].pc # "rejected"]_vars

\* C23: in every load the new backend is constructed only after the active
\* backend was stopped and disposed and the handles were cleared: at the step
\* that constructs a backend, no other backend's resources are allocated any
\* more and the engine's handles are the new backend's only.
C23_ConstructAfterTeardown ==
    [][/\ \A c \in Ids, dur \in Durations :
             LoadFileDecoded(c, dur)
                 => /\ NoBackend
                    /\ \A d \in Ids \ {c} : ~Allocated(d)'
       /\ \A c \in Ids, known \in Durations \cup {NaN} :
             LoadUrlConstruct(c, known)
                 => /\ player' = NULL
                    /\ ~isPlaying'
                    /\ \A d \in Ids \ {c} : ~Allocated(d)']_vars

\* Every object the engine holds a handle to, as the teardown leaves it.
TornDown ==
    /\ player # NULL => players'[player].st = "disposed"
    /\ mediaNode # NULL => nodes'[mediaNode] = "disconnected"
    /\ pitchShift # NULL => shifts'[pitchShift].st = "disposed"
    /\ mediaElement # NULL
          => /\ elems'[mediaElement].st = "detached"
             /\ elems'[mediaElement].paused

\* C24: the teardown step of a load, from any state, leaves the transport
\* stopped at 0 with nothing scheduled, the player disposed, the source node
\* disconnected, the pitch shifter disposed and the media element paused and
\* detached; after loadFile's teardown the engine holds no handle and
\* isPlaying is false, after loadUrl's (which goes on to construct) the
\* handles are the new backend's and isPlaying is false.
C24_TeardownReleasesEverything ==
    [][/\ \A c \in Ids :
             LoadFileTeardown(c)
                 => /\ TornDown
                    /\ transport'.state = "stopped"
                    /\ transport'.seconds = 0
                    /\ transport'.scheduled = {}
                    /\ NoBackend'
                    /\ ~isPlaying'
       /\ \A c \in Ids, known \in Durations \cup {NaN} :
             LoadUrlConstruct(c, known)
                 => /\ TornDown
                    /\ transport'.state = "stopped"
                    /\ transport'.seconds = 0
                    /\ transport'.scheduled = {}
                    /\ player' = NULL
                    /\ mediaElement' = c /\ mediaNode' = c /\ pitchShift' = c
                    /\ ~isPlaying']_vars

\* A loadFile has just torn a stream backend down: the engine holds no
\* handle, and the element is detached, its node disconnected and its pitch
\* shifter disposed.
C24_Witness ==
    \E c, d \in Ids :
        /\ calls[c].kind = "file" /\ calls[c].pc = "reading"
        /\ NoBackend /\ ~isPlaying
        /\ transport.state = "stopped" /\ transport.seconds = 0
        /\ elems[d].st = "detached"
        /\ nodes[d] = "disconnected"
        /\ shifts[d].st = "disposed"

\* C25: at the step a loadFile call resolves, the position is 0, isPlaying is
\* false and the transport is not started, whatever transport commands were
\* issued before the load or while its decode was pending.
C25_FileLoadResolvesAtRest ==
    [][\A c \in Ids, dur \in Durations :
          (LoadFileDecoded(c, dur) /\ ~Superseded(c))
              => /\ GetCurrentTime' = 0
                 /\ ~isPlaying'
                 /\ transport'.state # "started"]_vars

\* C26: a loadUrl call settles once.  It resolves at the first metadata
\* event of its element (at construction when the metadata is there already)
\* with the duration, and never without metadata; it rejects at the first
\* error event; a settled call keeps its outcome whatever arrives later.
C26_UrlLoadSettlesOnce ==
    [][\A c \in Ids :
          calls[c].kind = "url"
              => /\ calls[c].pc \in {"resolved", "rejected"}
                       => calls'[c] = calls[c]
                 /\ (calls[c].pc # "resolved" /\ calls'[c].pc = "resolved")
                       => /\ elems'[c].readyState >= HaveMetadata
                          /\ calls'[c].result # NaN
                          /\ calls'[c].result = elems'[c].duration
                 /\ \A dur \in Durations :
                       (calls[c].pc = "pending" /\ MediaMetadata(c, dur))
                           => /\ calls'[c].pc = "resolved"
                              /\ calls'[c].result = dur
                 /\ (calls[c].pc = "pending" /\ MediaError(c))
                       => calls'[c].pc = "rejected"]_vars

\* A loadUrl call resolved and its element reported an error afterwards: the
\* call is still resolved with the duration.
C26_Witness ==
    \E c \in Ids :
        /\ calls[c].kind = "url" /\ calls[c].pc = "resolved"
        /\ elems[c].st = "attached" /\ elems[c].failed
        /\ calls[c].result = elems[c].duration

\* The lifecycle state of every backend object.
Lifecycle ==
    [c \in Ids |-> <<players[c].st, elems[c].st, nodes[c], shifts[c].st>>]

\* The step leaves mode and the four handles as they were and constructs or
\* disposes no backend object.
BackendKept ==
    /\ UNCHANGED <<mode, player, mediaElement, mediaNode, pitchShift>>
    /\ Lifecycle' = Lifecycle

\* C28: play(), pause(), stop(), seek(t), setPlaybackRate(r) and
\* setDetune(c) leave mode and the four backend handles as they were and
\* construct or dispose no backend object.
C28_CommandsKeepBackend ==
    [][\/ BackendKept
       \/ ~(\/ Play \/ Pause \/ Stop
            \/ \E seconds \in Times : Seek(seconds)
            \/ \E rate \in Rates : SetPlaybackRate(rate)
            \/ \E cents \in Cents : SetDetune(cents))]_vars

\* A backend that was played, moved and given another rate: it is still
\* installed and live.
C28_Witness ==
    /\ BackendActive
    /\ isPlaying
    /\ GetCurrentTime > 0
    /\ RateControl # DefaultRate
    /\ Allocated(IF mode = "local" THEN player ELSE mediaElement)

\* C29: in every state mode 'stream' implies a media element is installed,
\* and no transport command has dereferenced a null handle.
C29_StreamModeHasElement ==
    /\ mode = "stream" => mediaElement # NULL
    /\ threw = FALSE

\* Stream mode while playing, with the player of a superseded loadFile
\* installed beside the stream backend: the element is there.
C29_Witness ==
    /\ mode = "stream"
    /\ mediaElement # NULL
    /\ player # NULL
    /\ isPlaying
    /\ ~elems[mediaElement].paused

\* C30: a loadUrl call resolves with the duration of the element it created
\* itself: at the step it resolves, the engine's handle is that element, and
\* the metadata handler never finds the handle null.
C30_ResolvesWithOwnDuration ==
    [][\A c \in Ids :
          /\ (/\ calls[c].kind = "url"
              /\ calls[c].pc # "resolved" /\ calls'[c].pc = "resolved")
                => /\ mediaElement' = c
                   /\ calls'[c].result = elems'[c].duration
          /\ \A dur \in Durations :
                MediaMetadata(c, dur) => mediaElement = c]_vars

\* Two loadUrl calls overlapped: the first was rejected, the second resolved
\* on its own element's metadata with that element's duration.
C30_Witness ==
    \E a, b \in Ids :
        /\ a < b
        /\ calls[a].kind = "url" /\ calls[a].pc = "rejected"
        /\ elems[a].st = "detached"
        /\ calls[b].kind = "url" /\ calls[b].pc = "resolved"
        /\ mediaElement = b
        /\ calls[b].result = elems[b].duration

\* C27: a waiting, playing, canplay or stalled event only hands its message
\* to onProgress: it leaves mode, isPlaying, currentRate, currentDetune and
\* the four handles as they were and settles no load.
C27_SignalsOnlyReport ==
    [][\A c \in Ids, msg \in Signals :
          MediaSignal(c, msg)
              => /\ progress' = msg
                 /\ UNCHANGED engineFields
                 /\ calls' = calls
                 /\ UNCHANGED <<toneVars, heapVars>>]_vars

\* A load is waiting for metadata and its element has reported buffering:
\* the message arrived, the load is still pending.
C27_Witness ==
    \E c \in Ids :
        /\ calls[c].kind = "url" /\ calls[c].pc = "pending"
        /\ mode = "stream" /\ mediaElement = c
        /\ progress = "Buffering..."

\* C22: for a request to the stream endpoint the {error, details} response
\* is sent at most once, and only on a response no audio was committed to;
\* once it is sent, no audio chunk is added to the response, whatever order
\* the child's stdout, stderr and close events come in.
C22_ErrorResponseOnceAndAlone ==
    [][/\ stream'.errors <= 1
       /\ stream'.errors > stream.errors
             => /\ stream.audio = 0
                /\ stream.res = "open"
                /\ stream'.res = "error"
       /\ stream.errors = 1
             => /\ stream'.audio = 0
                /\ stream'.res = "error"]_vars

\* The error response was sent and the child wrote to stdout afterwards:
\* the response took none of it.
C22_Witness ==
    /\ stream.errors = 1
    /\ stream.res = "error"
    /\ stream.chunks > 0
    /\ stream.audio = 0
    /\ stream.refused

\* C31: every loadUrl call eventually settles (resolves or rejects), given
\* that a media element that stays attached eventually reports metadata or
\* an error; a call whose element a later load tore down settles too.
C31_UrlLoadEventuallySettles ==
    \A c \in Ids :
        (calls[c].kind = "url") ~> (calls[c].pc \in {"resolved", "rejected"})

\* A loadUrl call whose element a later loadFile tore down before its
\* metadata arrived has settled: the error of the cleared src rejected it.
C31_Witness ==
    \E a, b \in Ids :
        /\ a < b
        /\ calls[a].kind = "url" /\ calls[a].pc = "rejected"
        /\ calls[b].kind = "file" /\ PastInit(b)
        /\ elems[a].st = "detached" /\ ~elems[a].abortError
        /\ elems[a].readyState < HaveMetadata

\* C32: in the App component, whenever no handler is executing, the UI's
\* isPlaying flag equals engine.isPlaying.
C32_UiPlayingMatchesEngine ==
    ~Resuming => app.isPlaying = isPlaying

\* A stream was loaded and auto-played, and a file load started on top of it
\* has torn the stream down: both flags are false again.
C32_Witness ==
    \E a, b \in Ids :
        /\ a < b
        /\ calls[a].kind = "url" /\ calls[a].pc = "resolved"
        /\ calls[b].kind = "file" /\ calls[b].pc = "reading"
        /\ app.isLoaded
        /\ ~app.isPlaying /\ ~isPlaying
        /\ elems[a].st = "detached"

\* Every load that was called has settled.
AllSettled == \A c \in Ids : calls[c].pc \in {"unborn", "resolved", "rejected"}

\* C33: in the App component, once every pending load has settled, the
\* duration the UI holds equals engine.getDuration().
C33_UiDurationMatchesEngine ==
    AllSettled => app.duration = GetDuration

\* C34: at most one authorization-status polling timer is active at any
\* time; starting polling clears the timer that was active and leaves the
\* new one alone, and a status check that reports logged-in leaves no timer.
C34_AtMostOnePollingTimer ==
    [][/\ Cardinality(poll'.timers) <= 1
       /\ poll'.timers \subseteq {poll'.pollInterval}
       /\ LoginResponse(TRUE)
             => /\ poll'.timers \cap poll.timers = {}
                /\ poll'.timers = {poll'.pollInterval}
       /\ StatusResponse(TRUE) => poll'.timers = {}]_vars

\* Polling was started a second time while the first timer was active: the
\* second timer is the only one.
C34_Witness ==
    /\ poll.nTimers = 2
    /\ poll.pollInterval = 2
    /\ poll.timers = {2}
    /\ ~poll.user

\* C35: when the client's connection closes, the child process the request
\* spawned is killed if it is still running; once the connection is closed
\* the child is never running.
C35_ChildKilledOnClientClose ==
    [][/\ (ClientClose /\ stream.proc = "running") => stream'.proc = "killed"
       /\ stream'.client = "closed"
             => stream'.proc \in {"killed", "closed"}]_vars

\* The client went away while the child was still writing audio: the child
\* was killed.
C35_Witness ==
    /\ stream.client = "closed"
    /\ stream.proc = "killed"
    /\ stream.audio > 0
    /\ stream.stdout = "open"

\* The sources request q tried are the first ones of the endpoint's order,
\* every one but the last has failed, and a request that is answered got
\* exactly one response.
TriedInOrder(q) ==
    /\ Len(q.tried) <= Len(Sources)
    /\ \A n \in 1..Len(q.tried) : q.tried[n] = Sources[n]
    /\ \A n \in 1..Len(q.tried) : n < Len(q.tried) => q.tried[n] \in q.failed
    /\ q.sent <= 1
    /\ q.st = "done" <=> q.sent = 1

\* Request q was answered with the metadata of the first source that
\* succeeded.
FirstSuccess(q) ==
    /\ q.tried # <<>>
    /\ q.body = q.tried[Len(q.tried)]
    /\ q.body \notin q.failed

\* All four sources were tried on request q and failed.
AllFailed(q) ==
    /\ q.tried = Sources
    /\ q.failed = {Sources[n] : n \in 1..Len(Sources)}

\* C36 as stated: the info endpoint tries its sources in the order basic
\* info, search, yt-dlp, oEmbed; it answers with the metadata of the first
\* source that succeeds and tries nothing after it; it answers 500 {error,
\* details} only when all four have failed; one response per request.
C36_FallbackOrderStrict ==
    [][\A r \in Requests :
          /\ TriedInOrder(info'[r])
          /\ info[r].st = "done" => info'[r] = info[r]
          /\ info'[r].status = 200 => FirstSuccess(info'[r])
          /\ info'[r].status = 500
                => /\ AllFailed(info'[r])
                   /\ info'[r].body = "error, details"]_vars

\* C36 amended: as stated, but 500 {error, details} is answered in one
\* more case, with no source tried: a url parameter that is not a string,
\* on which extracting the video id throws.
C36_FallbackOrder ==
    [][\A r \in Requests :
          /\ TriedInOrder(info'[r])
          /\ info[r].st = "done" => info'[r] = info[r]
          /\ info'[r].status = 200 => FirstSuccess(info'[r])
          /\ info'[r].status = 500
                => /\ info'[r].body = "error, details"
                   /\ IF info'[r].url = "notString"
                      THEN info'[r].tried = <<>>
                      ELSE AllFailed(info'[r])
          /\ info'[r].url = "notString" => info'[r].status = 500]_vars

\* One request was answered 500 after all four sources failed, another got
\* the metadata of the search after basic info failed.
C36_Witness ==
    \E r, q \in Requests :
        /\ info[r].status = 500 /\ AllFailed(info[r])
        /\ info[q].status = 200 /\ info[q].body = "search"
        /\ info[q].tried = <<"basic", "search">>
        /\ info[q].failed = {"basic"}

\* C37: between sign-outs at most one client instance is created, however
\* the calls to getYoutube and initYoutube overlap.
C37_OneInstanceBetweenSignOuts == auth.made <= 1

\* C38: once signOut has completed, and until a flow started after it has
\* succeeded, the credentials file does not exist and a getSessionStatus
\* called after the sign-out returns logged_in false.
C38_SignedOutUntilNewFlow ==
    [][/\ auth'.clean => ~auth'.file
       /\ \A p \in Ops :
            (/\ auth.clean
             /\ auth.op[p].kind = "status"
             /\ auth.op[p].epoch = auth.outs
             /\ auth.op[p].pc # "done"
             /\ auth'.op[p].pc = "done")
                => auth'.op[p].result = "out"]_vars

====
